---------------------------- MODULE Spec2Model ----------------------------
(***************************************************************************)
(* A model of p3270 (src/p3270/p3270.py): the S3270 command channel, its   *)
(* response reader S3270.check, the StatusMessage decoder and the          *)
(* P3270Client facade operations.                                          *)
(*                                                                         *)
(* Text (Python str) is a sequence of one-character strings; bytes are a   *)
(* sequence of latin-1 code points.  Python values that may be None, or    *)
(* of several types, are records tagged by their type in field t.          *)
(***************************************************************************)
EXTENDS Integers, Sequences, FiniteSets, TLC

(***************************************************************************)
(* Bounds of the model.                                                    *)
(***************************************************************************)
\* The largest number of data lines the emulator puts in one response.
MaxData == 3
\* sendPF / sendPA are tried with every integer of MinKey .. MaxKey.
MaxKey == 26
\* The emulator reports cursor rows and columns up to MaxCoord (and a few others).
MaxCoord == 2
\* The calls of S3270.do made in one behaviour.
MaxCalls == 3
\* The clients constructed in one behaviour.
MaxInstances == 2
\* The largest number of lines of a subprocess output that ends or falls silent.
MaxLines == 3
\* The calls of S3270.do that two threads make between them.
MaxThreadCalls == 2

(***************************************************************************)
(* Python values.                                                          *)
(***************************************************************************)
PyNone == [t |-> "None"]
PyStr(s) == [t |-> "str", v |-> s]
PyInt(i) == [t |-> "int", v |-> i]
PyBool(b) == [t |-> "bool", v |-> b]
PyFloat(i) == [t |-> "float", v |-> i]
PyTuple(a, b) == [t |-> "tuple", v |-> <<a, b>>]

\* The outcome of a call: a returned value or a raised exception.
Return(v) == [t |-> "return", v |-> v]
Raise(e) == [t |-> "raise", exc |-> e]

(***************************************************************************)
(* latin-1: the printable ASCII characters, code points 32 .. 126, and the *)
(* control characters \t, \n, \r.  The back quote (96), which a TLA+ string  *)
(* cannot hold, is the placeholder "<96>"; no text of the model uses it.   *)
(***************************************************************************)
Printable ==
    << " ", "!", "\"", "#", "$", "%", "&", "'", "(", ")", "*", "+", ",", "-",
       ".", "/", "0", "1", "2", "3", "4", "5", "6", "7", "8", "9", ":", ";",
       "<", "=", ">", "?", "@", "A", "B", "C", "D", "E", "F", "G", "H", "I",
       "J", "K", "L", "M", "N", "O", "P", "Q", "R", "S", "T", "U", "V", "W",
       "X", "Y", "Z", "[", "\\", "]", "^", "_", "<96>", "a", "b", "c", "d", "e",
       "f", "g", "h", "i", "j", "k", "l", "m", "n", "o", "p", "q", "r", "s",
       "t", "u", "v", "w", "x", "y", "z", "{", "|", "}", "~" >>

ByteValues == {9, 10, 13} \cup (32 .. 126)

Chr(b) ==
    IF b = 9 THEN "\t"
    ELSE IF b = 10 THEN "\n"
    ELSE IF b = 13 THEN "\r"
    ELSE Printable[b - 31]

OrdTable == [c \in {Chr(b) : b \in ByteValues} |-> CHOOSE b \in ByteValues : Chr(b) = c]

Ord(c) == OrdTable[c]

\* str.encode('latin1')
Encode(s) == [i \in 1 .. Len(s) |-> Ord(s[i])]

\* bytes.decode('latin1')
Decode(b) == [i \in 1 .. Len(b) |-> Chr(b[i])]

(***************************************************************************)
(* Python str operations used by the program.                              *)
(***************************************************************************)
\* s.startswith(p)
StartsWith(s, p) == Len(s) >= Len(p) /\ SubSeq(s, 1, Len(p)) = p

\* s[k:] for k >= 0
SliceFrom(s, k) == IF Len(s) <= k THEN << >> ELSE SubSeq(s, k + 1, Len(s))

RECURSIVE RStrip(_, _)
\* s.rstrip(c) for a single character c
RStrip(s, c) ==
    IF Len(s) > 0 /\ s[Len(s)] = c THEN RStrip(SubSeq(s, 1, Len(s) - 1), c) ELSE s

RECURSIVE SplitFrom(_, _, _, _)
\* The tokens of s from position i on, cur being the token under construction.
SplitFrom(s, sep, i, cur) ==
    IF i > Len(s) THEN << cur >>
    ELSE IF s[i] = sep THEN << cur >> \o SplitFrom(s, sep, i + 1, << >>)
    ELSE SplitFrom(s, sep, i + 1, Append(cur, s[i]))

\* s.split(sep) for a single character sep: every occurrence of sep separates
\* two tokens, so that a run of separators yields empty tokens.
Split(s, sep) == SplitFrom(s, sep, 1, << >>)

Digits == << "0", "1", "2", "3", "4", "5", "6", "7", "8", "9" >>

IsDigit(c) == \E d \in 1 .. 10 : Digits[d] = c

DigitValue(c) == (CHOOSE d \in 1 .. 10 : Digits[d] = c) - 1

\* The characters str.strip() and int() take for white space.
IsSpace(c) == c \in {" ", "\t", "\n", "\r"}

RECURSIVE LStripSpace(_)
LStripSpace(s) == IF Len(s) > 0 /\ IsSpace(s[1]) THEN LStripSpace(Tail(s)) ELSE s

RECURSIVE RStripSpace(_)
RStripSpace(s) ==
    IF Len(s) > 0 /\ IsSpace(s[Len(s)]) THEN RStripSpace(SubSeq(s, 1, Len(s) - 1)) ELSE s

RECURSIVE NatFormat(_)
NatFormat(n) == IF n < 10 THEN << Digits[n + 1] >> ELSE Append(NatFormat(n \div 10), Digits[(n % 10) + 1])

\* '{}'.format(n) for an int n
FormatInt(n) == IF n < 0 THEN << "-" >> \o NatFormat(0 - n) ELSE NatFormat(n)

\* The digits of an int literal: digits, single underscores between them.
IsIntBody(s) ==
    /\ Len(s) > 0
    /\ IsDigit(s[1])
    /\ IsDigit(s[Len(s)])
    /\ \A i \in 1 .. Len(s) : IsDigit(s[i]) \/ s[i] = "_"
    /\ \A i \in 1 .. Len(s) - 1 : ~(s[i] = "_" /\ s[i + 1] = "_")

RECURSIVE NatValue(_, _)
NatValue(s, acc) ==
    IF s = << >> THEN acc
    ELSE IF s[1] = "_" THEN NatValue(Tail(s), acc)
    ELSE NatValue(Tail(s), 10 * acc + DigitValue(s[1]))

\* int(s) for a str s: white space around it is ignored, a sign is allowed;
\* anything else raises ValueError.
ParseInt(s) ==
    LET core == RStripSpace(LStripSpace(s))
        signed == Len(core) > 0 /\ core[1] \in {"+", "-"}
        body == IF signed THEN Tail(core) ELSE core
    IN  IF ~IsIntBody(body) THEN Raise("ValueError")
        ELSE IF signed /\ core[1] = "-" THEN Return(0 - NatValue(body, 0))
        ELSE Return(NatValue(body, 0))

(***************************************************************************)
(* The texts of the program and of the emulator's protocol.                *)
(***************************************************************************)
T_data == << "d", "a", "t", "a", ":" >>
T_ok == << "o", "k" >>
T_error == << "e", "r", "r", "o", "r" >>
T_okay == << "o", "k", "a", "y" >>
T_Quit == << "Q", "u", "i", "t" >>
T_PrintTextString ==
    << "P", "r", "i", "n", "t", "T", "e", "x", "t", "(", "s", "t", "r", "i", "n", "g", ")" >>
T_Enter == << "E", "n", "t", "e", "r" >>
T_PF == << "P", "F" >>
T_PA == << "P", "A" >>
T_MoveCursor == << "M", "o", "v", "e", "C", "u", "r", "s", "o", "r" >>
T_PrintText == << "P", "r", "i", "n", "t", "T", "e", "x", "t" >>
T_html == << "h", "t", "m", "l" >>
T_rtf == << "r", "t", "f" >>
T_pdf == << "p", "d", "f" >>
T_HTML == << "H", "T", "M", "L" >>
T_True == << "T", "r", "u", "e" >>
T_False == << "F", "a", "l", "s", "e" >>
T_None == << "N", "o", "n", "e" >>
T_screen == << "s", "c", "r", "e", "e", "n" >>
T_absFile == << "/", "x" >>
T_screensDir == << "/", "s" >>
T_String == << "S", "t", "r", "i", "n", "g" >>
T_Ascii == << "A", "s", "c", "i", "i" >>
T_DeleteField ==
    << "D", "e", "l", "e", "t", "e", "F", "i", "e", "l", "d" >>
T_Wait == << "W", "a", "i", "t", "(" >>
T_InputField ==
    << ",", " ", "I", "n", "p", "u", "t", "F", "i", "e", "l", "d", ")" >>
T_NL == << "\n" >>
T_CRNL == << "\r", "\n" >>

(***************************************************************************)
(* StatusMessage: the decoder of the status line.                          *)
(***************************************************************************)
\* A str constant of the program, kept by name rather than spelt out.
Lit(s) == [t |-> "str", lit |-> s]

\* The width of the blank text an invalid StatusMessage keeps.
BlankWidth == 12

\* The number of tokens of a valid status line.
FieldCount == 12

\* StatusMessage.__init__: the object built from the status text.  An invalid
\* one has none of the field attributes.
StatusMessage(status) ==
    LET f == Split(status, " ")
    IN  IF ~(Len(f) = FieldCount)
        THEN [t |-> "StatusMessage",
              statusMessage |-> [i \in 1 .. BlankWidth |-> " "],
              is_valid |-> FALSE]
        ELSE [t |-> "StatusMessage",
              statusMessage |-> status,
              keyboard |-> f[1],
              screen |-> f[2],
              field |-> f[3],
              connection |-> f[4],
              emulator |-> f[5],
              model |-> f[6],
              numOfRows |-> f[7],
              numOfCols |-> f[8],
              cursorRow |-> f[9],
              cursorCol |-> f[10],
              winId |-> f[11],
              executionTime |-> f[12],
              is_valid |-> TRUE]

isValid(sm) == sm.is_valid

keyboardState(sm) ==
    IF isValid(sm) /\ sm.keyboard = << "U" >> THEN Return(Lit("Unlocked"))
    ELSE IF isValid(sm) /\ sm.keyboard = << "L" >> THEN Return(Lit("Locked"))
    ELSE IF isValid(sm) /\ sm.keyboard = << "E" >>
         THEN Return(Lit("Locked because of an operator error"))
    ELSE Return(PyNone)

screenFormatting(sm) ==
    IF isValid(sm) /\ sm.screen = << "F" >> THEN Return(Lit("Formatted"))
    ELSE IF isValid(sm) /\ sm.screen = << "U" >> THEN Return(Lit("Unformatted"))
    ELSE Return(PyNone)

\* A letter that is neither P nor U gives None, as in the other accessors.
fieldProtectionNoUnknown(sm) ==
    IF isValid(sm) /\ sm.field = << "P" >> THEN Return(Lit("Protected"))
    ELSE IF isValid(sm) /\ sm.field = << "U" >> THEN Return(Lit("Unprotected"))
    ELSE Return(PyNone)

fieldProtection(sm) ==
    IF isValid(sm)
    THEN IF sm.field = << "P" >> THEN Return(Lit("Protected"))
         ELSE IF sm.field = << "U" >> THEN Return(Lit("Unprotected"))
         ELSE Return(Lit("Unknown"))
    ELSE Return(PyNone)

connectionState(sm) ==
    IF isValid(sm) /\ StartsWith(sm.connection, << "C", "(" >>) THEN Return(PyBool(TRUE))
    ELSE IF isValid(sm) /\ sm.connection = << "N" >> THEN Return(PyBool(FALSE))
    ELSE Return(PyNone)

emulatorMode(sm) ==
    IF isValid(sm) /\ sm.emulator = << "I" >> THEN Return(Lit("3270"))
    ELSE IF isValid(sm) /\ sm.emulator = << "L" >> THEN Return(Lit("NVT Line"))
    ELSE IF isValid(sm) /\ sm.emulator = << "C" >> THEN Return(Lit("NVT Character"))
    ELSE IF isValid(sm) /\ sm.emulator = << "P" >> THEN Return(Lit("Unnegotiated"))
    ELSE IF isValid(sm) /\ sm.emulator = << "N" >> THEN Return(Lit("Not connected"))
    ELSE Return(PyNone)

modelNumber(sm) == IF isValid(sm) THEN Return(PyStr(sm.model)) ELSE Return(PyNone)

\* A number of rows or of columns that is no integer gives None.
screenDefinitionAbsorbed(sm) ==
    IF isValid(sm)
    THEN LET r == ParseInt(sm.numOfRows)
             c == ParseInt(sm.numOfCols)
         IN  IF r.t = "raise" \/ c.t = "raise" THEN Return(PyNone)
             ELSE Return(PyTuple(r.v, c.v))
    ELSE Return(PyNone)

\* (int(numOfRows), int(numOfCols)): the first int() that fails raises.
screenDefinition(sm) ==
    IF isValid(sm)
    THEN LET r == ParseInt(sm.numOfRows)
             c == ParseInt(sm.numOfCols)
         IN  IF r.t = "raise" THEN r
             ELSE IF c.t = "raise" THEN c
             ELSE Return(PyTuple(r.v, c.v))
    ELSE Return(PyNone)

\* The column is returned as the emulator counts it, from 0.
cursorPositionColumnFromZero(sm) ==
    IF isValid(sm)
    THEN LET r == ParseInt(sm.cursorRow)
             c == ParseInt(sm.cursorCol)
         IN  IF r.t = "raise" THEN r
             ELSE IF c.t = "raise" THEN c
             ELSE Return(PyTuple(r.v + 1, c.v))
    ELSE Return(PyNone)

\* int(cursorRow) + 1, int(cursorCol) + 1
cursorPosition(sm) ==
    IF isValid(sm)
    THEN LET r == ParseInt(sm.cursorRow)
             c == ParseInt(sm.cursorCol)
         IN  IF r.t = "raise" THEN r
             ELSE IF c.t = "raise" THEN c
             ELSE Return(PyTuple(r.v + 1, c.v + 1))
    ELSE Return(PyNone)

windowId(sm) ==
    IF isValid(sm) /\ sm.winId = << "0", "x", "0" >> THEN Return(PyStr(sm.winId))
    ELSE Return(PyNone)

execTime(sm) == IF isValid(sm) THEN Return(PyStr(sm.executionTime)) ELSE Return(PyNone)

(***************************************************************************)
(* S3270: the command channel.  The subprocess output is the sequence of   *)
(* the lines it holds (bytes, each ended by its line feed, the last one    *)
(* possibly not); reading past the last line finds the end of the stream.  *)
(***************************************************************************)
\* The number of characters S3270.check drops from the head of a data line.
PrefixSkip == 6

\* subpro.stdout.readline(): line i of the stream, b'' at the end of the stream.
readline(stream, i) == IF i <= Len(stream) THEN stream[i] ELSE << >>

\* readline().decode(encoding).rstrip('\n').rstrip('\r')
ReadText(stream, i) == RStrip(RStrip(Decode(readline(stream, i)), "\n"), "\r")

\* The return message is only required to begin with 'ok'.
checkReturnPrefix(buf, statusText, stream, i) ==
    LET returnMsg == ReadText(stream, i)
    IN  [buffer |-> buf,
         statusMsg |-> StatusMessage(statusText),
         ret |-> Return(PyBool(StartsWith(returnMsg, T_ok))),
         nRead |-> i]

\* The end of S3270.check: the line after the status line is the return
\* message.  i counts the lines read, this one included.
checkReturn(buf, statusText, stream, i) ==
    LET returnMsg == ReadText(stream, i)
    IN  [buffer |-> buf,
         statusMsg |-> StatusMessage(statusText),
         ret |-> Return(PyBool(returnMsg = T_ok)),
         nRead |-> i]

\* The payloads run together, the newline between them forgotten.
appendDataNoNewline(buf, data) == PyStr(buf.v \o SliceFrom(data, PrefixSkip))

\* buffer += '\n' + data[6:]
appendData(buf, data) == PyStr(buf.v \o << "\n" >> \o SliceFrom(data, PrefixSkip))

RECURSIVE checkLoopSeparator(_, _, _)
\* From the third line on, a data line is one that begins with "data: ", the
\* blank included.
checkLoopSeparator(buf, stream, i) ==
    LET data == ReadText(stream, i)
    IN  IF ~StartsWith(data, T_data \o << " " >>)
        THEN checkReturn(buf, data, stream, i + 1)
        ELSE checkLoopSeparator(appendData(buf, data), stream, i + 1)

RECURSIVE checkLoop(_, _, _)
\* The while loop of S3270.check, about to read line i.
checkLoop(buf, stream, i) ==
    LET data == ReadText(stream, i)
    IN  IF ~StartsWith(data, T_data)
        THEN checkReturn(buf, data, stream, i + 1)
        ELSE checkLoop(appendData(buf, data), stream, i + 1)

\* S3270.check(doNotCheck): buf is self.buffer at the call.
check(buf, sm, stream, doNotCheck) ==
    IF doNotCheck
    THEN [buffer |-> buf, statusMsg |-> sm, ret |-> Return(PyBool(TRUE)), nRead |-> 0]
    ELSE LET data1 == ReadText(stream, 1)
         IN  IF ~StartsWith(data1, T_data)
             THEN checkReturn(buf, data1, stream, 2)
             ELSE LET buf1 == PyStr(SliceFrom(data1, PrefixSkip))
                      data2 == ReadText(stream, 2)
                  IN  IF ~StartsWith(data2, T_data)
                      THEN checkReturn(buf1, data2, stream, 3)
                      ELSE checkLoop(appendData(buf1, data2), stream, 3)

\* self.cmd = cmd.encode(self.encoding) + b'\n'
cmdBytes(cmd) == Encode(cmd) \o << 10 >>

\* 'Quit' is compared with the command before its newline is added, so that
\* the response is read for 'Quit' as well.
doQuitUnrecognised(buf, sm, cmd, stream) ==
    LET c == check(buf, sm, stream, cmdBytes(cmd) = << 81, 117, 105, 116 >>)
    IN  [buffer |-> c.buffer, statusMsg |-> c.statusMsg, ret |-> c.ret,
         nRead |-> c.nRead, written |-> << cmdBytes(cmd) >>, calls |-> 1]

\* A command that did not succeed is written a second time.
doRetryOnFailure(buf, sm, cmd, stream) ==
    LET c == check(buf, sm, stream, cmdBytes(cmd) = << 81, 117, 105, 116, 10 >>)
    IN  [buffer |-> c.buffer, statusMsg |-> c.statusMsg, ret |-> c.ret,
         nRead |-> c.nRead,
         written |-> IF c.ret = Return(PyBool(TRUE)) THEN << cmdBytes(cmd) >>
                     ELSE << cmdBytes(cmd), cmdBytes(cmd) >>,
         calls |-> 1]

\* The status of a command that did not succeed is not kept.
doKeepsStatusOnFailure(buf, sm, cmd, stream) ==
    LET c == check(buf, sm, stream, cmdBytes(cmd) = << 81, 117, 105, 116, 10 >>)
    IN  [buffer |-> c.buffer,
         statusMsg |-> IF c.ret = Return(PyBool(TRUE)) THEN c.statusMsg ELSE sm,
         ret |-> c.ret, nRead |-> c.nRead, written |-> << cmdBytes(cmd) >>, calls |-> 1]

\* 'Quit' closes the channel: the buffer and the status are forgotten.
doQuitClears(buf, sm, cmd, stream) ==
    LET quit == cmdBytes(cmd) = << 81, 117, 105, 116, 10 >>
        c == check(buf, sm, stream, quit)
    IN  [buffer |-> IF quit THEN PyNone ELSE c.buffer,
         statusMsg |-> IF quit THEN PyNone ELSE c.statusMsg,
         ret |-> c.ret, nRead |-> c.nRead, written |-> << cmdBytes(cmd) >>, calls |-> 1]

\* S3270.do(cmd): the channel after the call, what it returned, the lines it
\* wrote to the subprocess input, the number of lines it read and the number
\* of calls of S3270.do made (this one).
do(buf, sm, cmd, stream) ==
    LET c == check(buf, sm, stream, cmdBytes(cmd) = << 81, 117, 105, 116, 10 >>)
    IN  [buffer |-> c.buffer, statusMsg |-> c.statusMsg, ret |-> c.ret,
         nRead |-> c.nRead, written |-> << cmdBytes(cmd) >>, calls |-> 1]

(***************************************************************************)
(* P3270Client: the texts of its commands.                                 *)
(***************************************************************************)
\* A coordinate below the origin is sent as 0.
moveToCoordinatesClamped(row, col) ==
    << FormatInt(IF row < 1 THEN 0 ELSE row - 1), FormatInt(IF col < 1 THEN 0 ELSE col - 1) >>

\* moveTo: row -= 1, col -= 1, and the two as '{}'.format writes them.
moveToCoordinates(row, col) == << FormatInt(row - 1), FormatInt(col - 1) >>

\* isinstance(n, int): bool is a subclass of int.
IsInstanceInt(n) == n.t \in {"int", "bool"}

\* The number an int or a bool is compared as: True is 1, False is 0.
IntOf(n) == IF n.t = "bool" THEN (IF n.v THEN 1 ELSE 0) ELSE n.v

\* '{}'.format(x)
Format(x) ==
    CASE x.t = "int" -> FormatInt(x.v)
      [] x.t = "bool" -> (IF x.v THEN T_True ELSE T_False)
      [] x.t = "str" -> x.v
      [] x.t = "float" -> FormatInt(x.v) \o << ".", "0" >>
      [] x.t = "None" -> T_None

\* The last key of sendPF and of sendPA.
LastPF == 24
LastPA == 3

\* os.path.join(a, b) on POSIX
pathJoin(a, b) ==
    IF StartsWith(b, << "/" >>) THEN b
    ELSE IF a = << >> \/ a[Len(a)] = "/" THEN a \o b
    ELSE a \o << "/" >> \o b

\* What a call that does not reach the channel leaves: False, nothing
\* written, nothing read, no call of S3270.do, the channel as it was.
rejected(buf, sm) ==
    [buffer |-> buf, statusMsg |-> sm, ret |-> Return(PyBool(FALSE)),
     nRead |-> 0, written |-> << >>, calls |-> 0]

\* sendPF stops at key 23.
sendPFCallBelowLast(buf, sm, n, stream) ==
    IF IsInstanceInt(n) /\ IntOf(n) >= 1 /\ IntOf(n) < LastPF
    THEN do(buf, sm, T_PF \o << "(" >> \o Format(n) \o << ")" >>, stream)
    ELSE rejected(buf, sm)

\* P3270Client.sendPF(n)
sendPFCall(buf, sm, n, stream) ==
    IF IsInstanceInt(n) /\ IntOf(n) >= 1 /\ IntOf(n) <= LastPF
    THEN do(buf, sm, T_PF \o << "(" >> \o Format(n) \o << ")" >>, stream)
    ELSE rejected(buf, sm)

\* P3270Client.sendPA(n)
sendPACall(buf, sm, n, stream) ==
    IF IsInstanceInt(n) /\ IntOf(n) >= 1 /\ IntOf(n) <= LastPA
    THEN do(buf, sm, T_PA \o << "(" >> \o Format(n) \o << ")" >>, stream)
    ELSE rejected(buf, sm)

\* P3270Client.moveTo(row, col)
moveToCall(buf, sm, row, col, stream) ==
    do(buf, sm,
       T_MoveCursor \o << "(" >> \o moveToCoordinates(row, col)[1] \o << ",", " " >>
           \o moveToCoordinates(row, col)[2] \o << ")" >>,
       stream)

\* P3270Client.saveScreen(fileName, dataType); screensDir is conf.screensDir,
\* None or a str.  Both arguments are str.
saveScreenCall(buf, sm, screensDir, fileName, dataType, stream) ==
    LET name == IF fileName # << >> /\ screensDir # PyNone /\ screensDir.v # << >>
                THEN pathJoin(screensDir.v, fileName)
                ELSE fileName
    IN  IF dataType = T_html \/ dataType = T_rtf
        THEN do(buf, sm,
                T_PrintText \o << "(" >> \o dataType \o << ",", " " >> \o name \o << ")" >>,
                stream)
        ELSE rejected(buf, sm)

\* P3270Client.sendText(text), text a str
sendTextCall(buf, sm, text, stream) ==
    do(buf, sm, T_String \o << "(", "\"" >> \o text \o << "\"", ")" >>, stream)

\* A Python list
PyList(l) == [t |-> "list", v |-> l]

RECURSIVE splitlinesFrom(_, _, _)
\* The lines of s from position i on, cur being the line under construction.
splitlinesFrom(s, i, cur) ==
    IF i > Len(s) THEN (IF cur = << >> THEN << >> ELSE << cur >>)
    ELSE IF s[i] = "\r" /\ i < Len(s) /\ s[i + 1] = "\n"
         THEN << cur >> \o splitlinesFrom(s, i + 2, << >>)
    ELSE IF s[i] \in {"\n", "\r"} THEN << cur >> \o splitlinesFrom(s, i + 1, << >>)
    ELSE splitlinesFrom(s, i + 1, Append(cur, s[i]))

\* s.splitlines(): the lines that \n, \r or \r\n end, an empty last one dropped.
splitlines(s) == splitlinesFrom(s, 1, << >>)

\* The smallest row, column, row count and column count of readTextArea.
FirstCell == 1

\* P3270Client.readTextArea(row, col, rows, cols), the four being int
readTextAreaCall(buf, sm, row, col, rows, cols, stream) ==
    IF row < FirstCell \/ col < FirstCell \/ rows < FirstCell \/ cols < FirstCell
    THEN [buffer |-> buf, statusMsg |-> sm, ret |-> Raise("Exception"),
          nRead |-> 0, written |-> << >>, calls |-> 0]
    ELSE LET d == do(buf, sm,
                     T_Ascii \o << "(" >> \o FormatInt(row - 1) \o << "," >>
                         \o FormatInt(col - 1) \o << "," >> \o FormatInt(rows)
                         \o << "," >> \o FormatInt(cols) \o << ")" >>,
                     stream)
             result == d.buffer
         IN  [d EXCEPT !.ret = IF rows > 1
                               THEN IF result = PyNone THEN Raise("AttributeError")
                                    ELSE Return(PyList(splitlines(result.v)))
                               ELSE Return(result)]

\* P3270Client.getScreen(): the buffer of the channel after the command.
getScreenCall(buf, sm, stream) ==
    LET d == do(buf, sm, T_PrintTextString, stream)
    IN  [d EXCEPT !.ret = Return(d.buffer)]

\* P3270Client.readTextAtPosition(row, col, length), the three being int
readTextAtPositionCall(buf, sm, row, col, length, stream) ==
    LET d == do(buf, sm,
                T_Ascii \o << "(" >> \o FormatInt(row - 1) \o << "," >>
                    \o FormatInt(col - 1) \o << "," >> \o FormatInt(length) \o << ")" >>,
                stream)
    IN  [d EXCEPT !.ret = Return(d.buffer)]

\* P3270Client.foundTextAtPosition(row, col, sent_text), sent_text a str:
\* read_text == sent_text, which is False when read_text is None.
foundTextAtPositionCall(buf, sm, row, col, sent_text, stream) ==
    LET d == readTextAtPositionCall(buf, sm, row, col, Len(sent_text), stream)
        read_text == d.ret.v
    IN  [d EXCEPT !.ret = Return(PyBool(read_text = PyStr(sent_text)))]

\* P3270Client.delField()
delFieldCall(buf, sm, stream) == do(buf, sm, T_DeleteField, stream)

\* What is left of the subprocess output after n lines of it have been read.
Rest(stream, n) == IF n >= Len(stream) THEN << >> ELSE SubSeq(stream, n + 1, Len(stream))

\* P3270Client.trySendTextToField(text, row, col), text a str: four calls one
\* after the other on the same subprocess (d1 to d4), each reading on from where
\* the one before it stopped; the outcomes of the first three are not looked at.
trySendTextToFieldCall(buf, sm, text, row, col, stream) ==
    CHOOSE out \in
        UNION {UNION {UNION {
            {[buffer |-> d4.buffer, statusMsg |-> d4.statusMsg,
              ret |-> Return(PyBool(PyStr(text) = d4.ret.v)),
              nRead |-> d1.nRead + d2.nRead + d3.nRead + d4.nRead,
              written |-> d1.written \o d2.written \o d3.written \o d4.written,
              calls |-> d1.calls + d2.calls + d3.calls + d4.calls] :
                d4 \in {readTextAtPositionCall(d3.buffer, d3.statusMsg, row, col, Len(text),
                            Rest(stream, d1.nRead + d2.nRead + d3.nRead))}} :
                d3 \in {sendTextCall(d2.buffer, d2.statusMsg, text,
                            Rest(stream, d1.nRead + d2.nRead))}} :
                d2 \in {delFieldCall(d1.buffer, d1.statusMsg, Rest(stream, d1.nRead))}} :
                d1 \in {moveToCall(buf, sm, row, col, stream)}} : TRUE

\* P3270Client.waitForField(): the outcome of the command is assigned to a local
\* name and the method ends without a return statement, so that it returns None.
waitForFieldCall(buf, sm, timeout, stream) ==
    LET d == do(buf, sm, T_Wait \o Format(timeout) \o T_InputField, stream)
        result == d.ret
    IN  [d EXCEPT !.ret = IF result.t = "raise" THEN result ELSE Return(PyNone)]

(***************************************************************************)
(* Config: the configuration of a client, from the arguments of its        *)
(* constructor and the lines of a configuration file.                      *)
(***************************************************************************)
T_Connect == << "C", "o", "n", "n", "e", "c", "t" >>
T_NoOpCommand == << "N", "o", "O", "p", "C", "o", "m", "m", "a", "n", "d" >>
T_yes == << "y", "e", "s" >>
T_no == << "n", "o" >>
T_localhost == << "l", "o", "c", "a", "l", "h", "o", "s", "t" >>
T_23 == << "2", "3" >>
T_3279_2 == << "3", "2", "7", "9", "-", "2" >>
T_cp037 == << "c", "p", "0", "3", "7" >>
T_hostname == << "h", "o", "s", "t", "n", "a", "m", "e" >>
T_port == << "p", "o", "r", "t" >>
T_model == << "m", "o", "d", "e", "l" >>
T_traceFile == << "t", "r", "a", "c", "e", "F", "i", "l", "e" >>
T_LUName == << "L", "U", "N", "a", "m", "e" >>
T_codePage == << "c", "o", "d", "e", "P", "a", "g", "e" >>
T_screensDirKey == << "s", "c", "r", "e", "e", "n", "s", "D", "i", "r" >>
T_verifyCert == << "v", "e", "r", "i", "f", "y", "C", "e", "r", "t" >>
T_enableTLS == << "e", "n", "a", "b", "l", "e", "T", "L", "S" >>

\* Config._validModels
validModels ==
    {<< "3", "2", "7", "8", "-", "2" >>, << "3", "2", "7", "8", "-", "3" >>,
     << "3", "2", "7", "8", "-", "4" >>, << "3", "2", "7", "8", "-", "5" >>,
     << "3", "2", "7", "9", "-", "2" >>, << "3", "2", "7", "9", "-", "3" >>,
     << "3", "2", "7", "9", "-", "4" >>, << "3", "2", "7", "9", "-", "5" >>}

\* The names of Config._sbcsCodePages
sbcsCodePages ==
    {<< "c", "p", "0", "3", "7" >>, << "c", "p", "2", "7", "3" >>,
     << "c", "p", "2", "7", "5" >>, << "c", "p", "2", "7", "7" >>,
     << "c", "p", "2", "7", "8" >>, << "c", "p", "2", "8", "0" >>,
     << "c", "p", "2", "8", "4" >>, << "c", "p", "2", "8", "5" >>,
     << "c", "p", "2", "9", "7" >>, << "c", "p", "4", "2", "4" >>,
     << "c", "p", "5", "0", "0" >>, << "c", "p", "8", "0", "3" >>,
     << "c", "p", "8", "7", "0" >>, << "c", "p", "8", "7", "1" >>,
     << "c", "p", "8", "7", "5" >>, << "c", "p", "8", "8", "0" >>,
     << "c", "p", "9", "3", "0" >>, << "c", "p", "9", "3", "5" >>,
     << "c", "p", "9", "3", "7" >>, << "c", "p", "9", "3", "9" >>,
     << "c", "p", "1", "0", "2", "6" >>, << "c", "p", "1", "0", "4", "7" >>,
     << "c", "p", "1", "1", "4", "0" >>, << "c", "p", "1", "1", "4", "1" >>,
     << "c", "p", "1", "1", "4", "2" >>, << "c", "p", "1", "1", "4", "3" >>,
     << "c", "p", "1", "1", "4", "4" >>, << "c", "p", "1", "1", "4", "5" >>,
     << "c", "p", "1", "1", "4", "6" >>, << "c", "p", "1", "1", "4", "7" >>,
     << "c", "p", "1", "1", "4", "8" >>, << "c", "p", "1", "1", "4", "9" >>,
     << "c", "p", "1", "1", "6", "0" >>, << "c", "p", "1", "3", "8", "8" >>,
     << "a", "p", "l" >>, << "b", "r", "a", "c", "k", "e", "t" >>}

\* The names of Config._dbcsCodePage
dbcsCodePage ==
    {<< "c", "p", "9", "3", "0" >>, << "c", "p", "9", "3", "5" >>,
     << "c", "p", "9", "3", "7" >>, << "c", "p", "1", "3", "8", "8" >>}

\* Config._encodingLookup.get(codePage, 'latin1')
encodingLookup(codePage) ==
    CASE codePage = << "c", "p", "4", "2", "4" >> -> Lit("latin8")
      [] codePage = << "c", "p", "8", "7", "0" >> -> Lit("latin2")
      [] codePage = << "c", "p", "8", "7", "5" >> -> Lit("latin7")
      [] codePage = << "c", "p", "8", "8", "0" >> -> Lit("koi8-r")
      [] codePage = << "c", "p", "1", "0", "2", "6" >> -> Lit("latin5")
      [] codePage \in
            {<< "c", "p", "1", "1", "4", "0" >>, << "c", "p", "1", "1", "4", "1" >>,
             << "c", "p", "1", "1", "4", "2" >>, << "c", "p", "1", "1", "4", "3" >>,
             << "c", "p", "1", "1", "4", "4" >>, << "c", "p", "1", "1", "4", "5" >>,
             << "c", "p", "1", "1", "4", "6" >>, << "c", "p", "1", "1", "4", "7" >>,
             << "c", "p", "1", "1", "4", "8" >>} -> Lit("latin9")
      [] OTHER -> Lit("latin1")

\* The truth value of a Python value in an if: None and '' are false.
Truthy(x) ==
    CASE x.t = "None" -> FALSE
      [] x.t = "str" -> x.v # << >>
      [] x.t = "int" -> x.v # 0
      [] x.t = "bool" -> x.v
      [] OTHER -> TRUE

\* c.lower() for a character
LowerChar(c) == IF Ord(c) \in 65 .. 90 THEN Chr(Ord(c) + 32) ELSE c

\* s.lower()
Lower(s) == [i \in 1 .. Len(s) |-> LowerChar(s[i])]

\* s.strip()
Strip(s) == RStripSpace(LStripSpace(s))

\* s.replace(c, '') for a single character c
Remove(s, c) == SelectSeq(s, LAMBDA x : x # c)

RECURSIVE SkipBlanks(_)
\* What follows the blanks a text begins with (the ' *' of the patterns).
SkipBlanks(s) == IF Len(s) > 0 /\ s[1] = " " THEN SkipBlanks(Tail(s)) ELSE s

\* re.compile("^ *key *=").match(line)
MatchesKey(line, key) ==
    LET s == SkipBlanks(line)
    IN  /\ StartsWith(s, key)
        /\ StartsWith(SkipBlanks(SliceFrom(s, Len(key))), << "=" >>)

\* line.split('=')[1].strip()
ValueOf(line) == Strip(Split(line, "=")[2])

\* The body of the loop of Config.readConfig: one line of the file.
readConfigLine(c, fileLine) ==
    LET line == Remove(Remove(Remove(fileLine, "\n"), "\r"), "\t")
    IN  IF MatchesKey(line, T_hostname) THEN [c EXCEPT !.hostName = PyStr(ValueOf(line))]
        ELSE IF MatchesKey(line, T_port) THEN [c EXCEPT !.hostPort = PyStr(ValueOf(line))]
        ELSE IF MatchesKey(line, T_model) THEN [c EXCEPT !.modelName = PyStr(ValueOf(line))]
        ELSE IF MatchesKey(line, T_traceFile) THEN [c EXCEPT !.traceFile = PyStr(ValueOf(line))]
        ELSE IF MatchesKey(line, T_LUName) THEN [c EXCEPT !.luName = PyStr(ValueOf(line))]
        ELSE IF MatchesKey(line, T_codePage) THEN [c EXCEPT !.codePage = PyStr(ValueOf(line))]
        ELSE IF MatchesKey(line, T_screensDirKey)
             THEN [c EXCEPT !.screensDir = PyStr(ValueOf(line))]
        ELSE IF MatchesKey(line, T_verifyCert)
             THEN [c EXCEPT !.verifyCert = PyStr(Lower(ValueOf(line)))]
        ELSE IF MatchesKey(line, T_enableTLS)
             THEN [c EXCEPT !.enableTLS = PyStr(Lower(ValueOf(line)))]
        ELSE c

RECURSIVE readConfig(_, _)
\* Config.readConfig, the file holding these lines.
readConfig(c, lines) ==
    IF lines = << >> THEN c ELSE readConfig(readConfigLine(c, lines[1]), Tail(lines))

\* The ports a host listens on.
FirstPort == 1
LastPort == 65535

\* int(x) for a str or an int
IntValue(x) == IF x.t = "str" THEN ParseInt(x.v) ELSE Return(IntOf(x))

\* The directories that exist: os.path.isdir
Directories == {T_screensDir}

isdir(path) == path \in Directories

\* The attributes validateAttributes tests, in the order it appends them.
AttributeOrder ==
    << "modelName", "hostPort", "codePage", "screensDir", "verifyCert", "enableTLS" >>

\* Config.validateAttributes: the Config with its invalidAttributes, or the
\* exception of int(self.hostPort).  encoding is assigned for a valid code page
\* only; PyNone stands for the attribute that was never assigned.
validateAttributes(c) ==
    LET port == IntValue(c.hostPort)
        bad(a) ==
            CASE a = "modelName" -> c.modelName \notin {PyStr(m) : m \in validModels}
              [] a = "hostPort" -> port.v < FirstPort \/ port.v > LastPort
              [] a = "codePage" ->
                    /\ Truthy(c.codePage)
                    /\ c.codePage.v \notin dbcsCodePage
                    /\ c.codePage.v \notin sbcsCodePages
              [] a = "screensDir" -> Truthy(c.screensDir) /\ ~isdir(c.screensDir.v)
              [] a = "verifyCert" ->
                    Truthy(c.verifyCert) /\ c.verifyCert.v \notin {T_yes, T_no}
              [] a = "enableTLS" ->
                    Truthy(c.enableTLS) /\ c.enableTLS.v \notin {T_yes, T_no}
    IN  IF port.t = "raise" THEN port
        ELSE Return([c EXCEPT
                        !.invalidAttributes = SelectSeq(AttributeOrder, bad),
                        !.encoding = IF Truthy(c.codePage) /\ ~bad("codePage")
                                     THEN encodingLookup(c.codePage.v) ELSE c.encoding])

\* The configuration files: their names and their lines.
T_okCfg == << "o", "k", ".", "c", "f", "g" >>
T_tlsCfg == << "t", "l", "s", ".", "c", "f", "g" >>
T_koCfg == << "k", "o", ".", "c", "f", "g" >>
T_portCfg == << "p", "o", "r", "t", ".", "c", "f", "g" >>
T_flagsCfg == << "f", "l", "a", "g", "s", ".", "c", "f", "g" >>
T_noCfg == << "n", "o", ".", "c", "f", "g" >>

ConfigFiles == {T_okCfg, T_tlsCfg, T_koCfg, T_portCfg, T_flagsCfg}

\* The lines of a file of ConfigFiles, each with its line end.
FileLines(name) ==
    CASE name = T_okCfg ->
            << << "h", "o", "s", "t", "n", "a", "m", "e", " ", "=", " ",
                  "l", "o", "c", "a", "l", "h", "o", "s", "t", "\n" >>,
               << "p", "o", "r", "t", " ", "=", " ", "3", "2", "7", "0", "\n" >>,
               << "m", "o", "d", "e", "l", " ", "=", " ", "3", "2", "7", "9", "-", "2", "\n" >>,
               << "L", "U", "N", "a", "m", "e", " ", "=", " ",
                  "L", "U", "0", "1", "Q", "S", "W", "J", "\n" >>,
               << "s", "c", "r", "e", "e", "n", "s", "D", "i", "r", " ", "=", " ", "/", "s", "\n" >>,
               << "#", " ", "p", "3", "2", "7", "0", "\n" >>,
               << "\n" >> >>
      [] name = T_tlsCfg ->
            << << "e", "n", "a", "b", "l", "e", "T", "L", "S", " ", "=", " ", "Y", "E", "S", "\r", "\n" >>,
               << "L", "U", "N", "a", "m", "e", "=", "L", "2", "\n" >>,
               << " ", "h", "o", "s", "t", "n", "a", "m", "e", " ", "=", "h", "=", "x", "\n" >> >>
      [] name = T_koCfg ->
            << << "m", "o", "d", "e", "l", " ", "=", " ", "3", "2", "7", "0", "\n" >>,
               << "p", "o", "r", "t", " ", "=", " ", "0", "\n" >>,
               << "c", "o", "d", "e", "P", "a", "g", "e", " ", "=", " ", "z", "z", "\n" >>,
               << "s", "c", "r", "e", "e", "n", "s", "D", "i", "r", " ", "=", " ", "/", "n", "\n" >>,
               << "v", "e", "r", "i", "f", "y", "C", "e", "r", "t", " ", "=", " ", "x", "\n" >>,
               << "e", "n", "a", "b", "l", "e", "T", "L", "S", " ", "=", " ", "y", "\n" >> >>
      [] name = T_portCfg ->
            << << "p", "o", "r", "t", " ", "=", " ", "a", "b", "c", "\n" >> >>
      [] name = T_flagsCfg ->
            << << "e", "n", "a", "b", "l", "e", "T", "L", "S", " ", "=", "\n" >>,
               << "v", "e", "r", "i", "f", "y", "C", "e", "r", "t", " ", "=", " ", "N", "o", "\n" >>,
               << "\t", "c", "o", "d", "e", "P", "a", "g", "e", " ", "=", " ",
                  "c", "p", "8", "7", "0", "\n" >>,
               << "P", "o", "r", "t", " ", "=", " ", "1", "\n" >> >>

\* Config.__init__(**a): the Config built, or the exception that escapes.
ConfigInit(a) ==
    LET c0 == [cfgFile |-> a.cfgFile, hostName |-> a.hostName, hostPort |-> a.hostPort,
               modelName |-> a.modelName, traceFile |-> a.traceFile, luName |-> a.luName,
               codePage |-> a.codePage, screensDir |-> a.screensDir,
               verifyCert |-> a.verifyCert, enableTLS |-> a.enableTLS,
               invalidAttributes |-> << >>, encoding |-> PyNone, is_valid |-> FALSE]
    IN  IF Truthy(a.cfgFile) /\ a.cfgFile.v \notin ConfigFiles
        THEN Raise("FileNotFoundError")
        ELSE LET c1 == IF Truthy(a.cfgFile) THEN readConfig(c0, FileLines(a.cfgFile.v)) ELSE c0
                 v == validateAttributes(c1)
             IN  IF v.t = "raise" THEN v
                 ELSE Return([v.v EXCEPT !.is_valid = Len(v.v.invalidAttributes) = 0])

\* The default values of the parameters of Config.__init__
ConfigDefaults ==
    [cfgFile |-> PyNone, hostName |-> PyStr(T_localhost), hostPort |-> PyStr(T_23),
     modelName |-> PyStr(T_3279_2), traceFile |-> PyNone, luName |-> PyNone,
     codePage |-> PyStr(T_cp037), screensDir |-> PyNone, verifyCert |-> PyStr(T_yes),
     enableTLS |-> PyStr(T_no)]

\* The default values of the parameters of P3270Client.__init__
ClientDefaults ==
    [luName |-> PyNone, hostName |-> PyStr(T_localhost), hostPort |-> PyStr(T_23),
     modelName |-> PyStr(T_3279_2), configFile |-> PyNone, verifyCert |-> PyStr(T_yes),
     enableTLS |-> PyStr(T_no), codePage |-> PyStr(T_cp037), path |-> PyNone,
     timeoutInSec |-> PyInt(20)]

\* The arguments P3270Client.__init__ gives to Config: the others keep their
\* default values.
ConfigArgsOf(a) ==
    [ConfigDefaults EXCEPT
        !.cfgFile = a.configFile, !.hostName = a.hostName, !.hostPort = a.hostPort,
        !.luName = a.luName, !.modelName = a.modelName, !.codePage = a.codePage]

\* The attributes P3270Client.__init__ assigns from its arguments.
ClientOf(a) ==
    [luName |-> a.luName, hostName |-> a.hostName, hostPort |-> a.hostPort,
     modelName |-> a.modelName, configFile |-> a.configFile, verifyCert |-> a.verifyCert,
     enableTLS |-> a.enableTLS, timeout |-> a.timeoutInSec, path |-> a.path]

\* What a construction that raises e leaves: no client, popens subprocesses
\* launched.
failed(e, popens) ==
    [ret |-> Raise(e), client |-> PyNone, conf |-> PyNone, popens |-> popens, counted |-> 0]

\* The subprocess is launched before the configuration is tested.
P3270ClientInitLaunchFirst(a) ==
    LET c == ConfigInit(ConfigArgsOf(a))
    IN  IF c.t = "raise" THEN failed(c.exc, 0)
        ELSE IF c.v.encoding = PyNone THEN failed("AttributeError", 0)
        ELSE IF ~c.v.is_valid THEN failed("InvalidConfiguration", 1)
        ELSE [ret |-> Return(PyNone), client |-> ClientOf(a), conf |-> c.v,
              popens |-> 1, counted |-> 1]

\* P3270Client.__init__(**a): the client and its Config, the number of
\* subprocesses launched (S3270.__init__ calls subprocess.Popen once) and the
\* increment of P3270Client.numOfInstances; or the exception that escapes.
P3270ClientInit(a) ==
    LET c == ConfigInit(ConfigArgsOf(a))
    IN  IF c.t = "raise" THEN failed(c.exc, 0)
        ELSE IF ~c.v.is_valid THEN failed("InvalidConfiguration", 0)
        ELSE IF c.v.encoding = PyNone THEN failed("AttributeError", 0)
        ELSE [ret |-> Return(PyNone), client |-> ClientOf(a), conf |-> c.v,
              popens |-> 1, counted |-> 1]

\* The text of the command of P3270Client.connect
connectCommand(c) ==
    LET prefix == IF c.enableTLS = PyStr(T_yes) THEN << "L", ":" >> ELSE << "B", ":" >>
    IN  IF Truthy(c.luName)
        THEN T_Connect \o << "(" >> \o prefix \o Format(c.luName) \o << "@" >>
                 \o Format(c.hostName) \o << ")" >>
        ELSE T_Connect \o << "(" >> \o prefix \o Format(c.hostName) \o << ")" >>

\* P3270Client.connect(): c is self.conf
connectCall(buf, sm, c, stream) == do(buf, sm, connectCommand(c), stream)

\* The answer follows the result of the command, not the status line.
isConnectedCallByResult(buf, sm, stream) ==
    LET d == do(buf, sm, T_NoOpCommand, stream)
    IN  [d EXCEPT !.ret = Return(PyBool(d.ret = Return(PyBool(TRUE))))]

\* P3270Client.isConnected(): the command, then connectionState of the status
\* the channel holds after it.
isConnectedCall(buf, sm, stream) ==
    LET d == do(buf, sm, T_NoOpCommand, stream)
    IN  [d EXCEPT !.ret = connectionState(d.statusMsg)]

(***************************************************************************)
(* The emulator.  A response is some data lines, the status line and the   *)
(* result token; the stream may end (the subprocess closes its output)     *)
(* after the first cut lines of it.                                        *)
(***************************************************************************)
\* The status lines of the tests: connected, not connected, and the empty line.
F_connected ==
    << << "U" >>, << "F" >>, << "U" >>, << "C", "(", "l", "o", "c", "a", "l", "h", "o", "s", "t", ")" >>, << "I" >>, << "2" >>,
       << "2", "4" >>, << "8", "0" >>, << "8" >>, << "2" >>, << "0", "x", "0" >>,
       << "0", ".", "0", "0", "0" >> >>

F_disconnected ==
    << << "L" >>, << "U" >>, << "U" >>, << "N" >>, << "N" >>, << "2" >>,
       << "2", "4" >>, << "8", "0" >>, << "0" >>, << "0" >>, << "0", "x", "0" >>,
       << "-" >> >>

RECURSIVE Join(_, _)
\* sep.join(parts)
Join(parts, sep) ==
    IF parts = << >> THEN << >>
    ELSE IF Len(parts) = 1 THEN parts[1]
    ELSE parts[1] \o sep \o Join(Tail(parts), sep)

S_connected == Join(F_connected, << " " >>)
S_empty == << >>

\* The payloads of the data lines.
Payloads == {<< "H", "i" >>, << >>}

RECURSIVE SeqsUpTo(_, _)
\* The sequences over S of length at most n.
SeqsUpTo(S, n) ==
    IF n = 0 THEN {<< >>}
    ELSE LET shorter == SeqsUpTo(S, n - 1)
         IN  shorter \cup {Append(q, x) : q \in {q \in shorter : Len(q) = n - 1}, x \in S}

DataSeqs == SeqsUpTo(Payloads, MaxData)

\* The lines of a response, as text and without their line ends.
ResponseLines(r) ==
    [i \in 1 .. Len(r.data) |-> T_data \o << " " >> \o r.data[i]] \o << r.status, r.result >>

\* The bytes of the subprocess output for response r: the first r.cut lines,
\* each with the line end r.nl, the last of them without it when r.bare.
Wire(r) ==
    LET lines == ResponseLines(r)
    IN  [i \in 1 .. r.cut |->
            Encode(lines[i] \o (IF r.bare /\ i = r.cut THEN << >> ELSE r.nl))]

\* The subprocess output held a whole response: data lines, status, result.
Complete(r) == r.cut = Len(r.data) + 2

\* A stream that holds nothing.
NoResponse ==
    [data |-> << >>, status |-> S_empty, result |-> << >>, nl |-> T_NL, bare |-> FALSE, cut |-> 0]

CompleteResponses ==
    [data : DataSeqs, status : {S_connected, S_empty}, result : {T_ok, T_error, T_okay},
     nl : {T_NL}, bare : {FALSE}, cut : 2 .. MaxData + 2]

LineEndResponses ==
    [data : SeqsUpTo(Payloads, 2), status : {S_connected}, result : {T_ok, T_error},
     nl : {T_NL, T_CRNL}, bare : BOOLEAN, cut : 2 .. 4]

\* The stream ends in place of the status line, or in place of the result token.
TruncatedResponses ==
    [data : DataSeqs, status : {S_connected, S_empty}, result : {T_ok},
     nl : {T_NL}, bare : {FALSE}, cut : 0 .. MaxData + 1]

Responses ==
    {r \in CompleteResponses \cup LineEndResponses : r.cut = Len(r.data) + 2}
    \cup {r \in TruncatedResponses :
            \/ r.cut = Len(r.data) + 1
            \/ r.cut = Len(r.data) /\ r.status = S_connected}

(***************************************************************************)
(* The status lines given to the decoder: the tokens the emulator writes   *)
(* and the separator it puts between them.  A token may be empty (two      *)
(* separators in a row).                                                   *)
(***************************************************************************)
\* The cursor coordinates the emulator reports: their text and their value.
CoordValues == {-11, 79} \cup (-2 .. MaxCoord)

IntTexts ==
    {<< FormatInt(k), k >> : k \in CoordValues}
        \cup {<< << "+", "3" >>, 3 >>, << << "0", "7" >>, 7 >>}

\* Texts that are no integer.
NonIntTexts == {<< "x" >>, << >>, << "1", ".", "5" >>}

\* The connected status line with token i replaced by x.
WithField(i, x) == [F_connected EXCEPT ![i] = x]

OneFieldVaried ==
    {WithField(1, x) : x \in {<< "U" >>, << "L" >>, << "E" >>, << "X" >>, << "L", "x" >>, << >>}}
    \cup {WithField(2, x) : x \in {<< "F" >>, << "U" >>, << "X" >>, << >>}}
    \cup {WithField(3, x) : x \in {<< "P" >>, << "U" >>, << "X" >>, << >>}}
    \cup {WithField(4, x) : x \in {<< "N" >>, << "X" >>, << "C", "(" >>, << "c", "(", "h", ")" >>}}
    \cup {WithField(5, x) : x \in {<< "I" >>, << "L" >>, << "C" >>, << "P" >>, << "N" >>, << "X" >>, << >>}}
    \cup {WithField(6, x) : x \in {<< "2" >>, << "5" >>, << "M" >>, << >>}}
    \cup {WithField(7, x) : x \in {<< "4", "3" >>, << "x" >>, << >>}}
    \cup {WithField(8, x) : x \in {<< "1", "3", "2" >>, << "x" >>}}
    \cup {WithField(11, x) : x \in {<< "0", "x", "0" >>, << "0", "x", "1" >>, << "0", "X", "0" >>, << >>}}
    \cup {WithField(12, x) : x \in {<< "-" >>, << "0", ".", "1" >>, << >>}}

CursorVaried ==
    {[F_connected EXCEPT ![9] = r, ![10] = c] :
        r, c \in {p[1] : p \in IntTexts} \cup NonIntTexts}

\* The screen sizes the emulator reports: their text and their value.
ScreenTexts ==
    {<< << "2", "4" >>, 24 >>, << << "8", "0" >>, 80 >>, << << "4", "3" >>, 43 >>,
     << << "1", "3", "2" >>, 132 >>, << << "+", "2", "7" >>, 27 >>, << << "2" >>, 2 >>}

ScreenVaried ==
    {[F_connected EXCEPT ![7] = r, ![8] = c] :
        r, c \in {<< "2", "4" >>, << "1", "3", "2" >>, << "+", "2", "7" >>} \cup NonIntTexts}

\* Fewer or more than 12 tokens; 11 or 10 real fields that runs of blanks, or
\* a blank at either end, bring to 12 tokens; 12 real fields and one more blank.
WrongCount ==
    {<< >>, << << >> >>, << << "U" >> >>,
     SubSeq(F_connected, 1, 11), SubSeq(F_connected, 1, 5),
     F_connected \o << << "x" >> >>,
     F_connected \o F_disconnected,
     << << >> >> \o SubSeq(F_connected, 1, 11),
     SubSeq(F_disconnected, 1, 11) \o << << >> >>,
     SubSeq(F_connected, 1, 4) \o << << >> >> \o SubSeq(F_connected, 6, 12),
     SubSeq(F_connected, 1, 8) \o << << >>, << >> >> \o SubSeq(F_connected, 11, 12),
     SubSeq(F_connected, 1, 3) \o << << >> >> \o SubSeq(F_connected, 4, 12),
     SubSeq(F_connected, 1, 3) \o << << >> >> \o SubSeq(F_connected, 4, 11)}

StatusResponses ==
    [fields : OneFieldVaried \cup CursorVaried \cup ScreenVaried \cup WrongCount
                \cup {F_disconnected},
     sep : {<< " " >>},
     data : {<< >>}, result : {T_ok}, nl : {T_NL}, bare : {FALSE}, cut : {2}]
    \cup [fields : {F_connected, F_disconnected}, sep : {<< "\t" >>},
          data : {<< >>}, result : {T_ok}, nl : {T_NL}, bare : {FALSE}, cut : {2}]

\* The status line of such a response.
StatusLineOf(r) == Join(r.fields, r.sep)

\* The subprocess output for a response of StatusResponses.
StatusWire(r) ==
    Wire([data |-> r.data, status |-> StatusLineOf(r), result |-> r.result,
          nl |-> r.nl, bare |-> r.bare, cut |-> r.cut])

\* The responses given to isConnected: the connection token varied, lines
\* that are not valid, with and without a data line, accepted and refused,
\* and the stream that holds nothing.
ConnResponses ==
    [fields : {WithField(4, x) : x \in {<< "N" >>, << "X" >>, << "C", "(" >>, << "N", "N" >>,
                                        << "c", "(", "h", ")" >>, << >>}}
                \cup {F_connected, F_disconnected, << >>, SubSeq(F_connected, 1, 11),
                      SubSeq(F_connected, 1, 3) \o << << >> >> \o SubSeq(F_connected, 4, 11)},
     sep : {<< " " >>},
     data : {<< >>}, result : {T_ok}, nl : {T_NL}, bare : {FALSE}, cut : {2}]
    \cup [fields : {F_connected, F_disconnected, << >>}, sep : {<< " " >>},
          data : {<< >>}, result : {T_error}, nl : {T_NL}, bare : {FALSE}, cut : {2}]
    \cup [fields : {F_connected, F_disconnected}, sep : {<< " " >>},
          data : {<< << "H", "i" >> >>}, result : {T_ok, T_error}, nl : {T_NL},
          bare : {FALSE}, cut : {3}]
    \cup [fields : {F_connected}, sep : {<< " " >>},
          data : {<< >>}, result : {T_ok}, nl : {T_NL}, bare : {FALSE}, cut : {0}]

\* The lines given to the response reader one at a time: lines that begin
\* with "data:" (followed by a blank, by nothing, or by the payload at once),
\* and lines that do not (status lines, the empty line, and lines that only
\* resemble a data line).
S_disconnected == Join(F_disconnected, << " " >>)

DataLines ==
    {<< "d", "a", "t", "a", ":" >>, << "d", "a", "t", "a", ":", " ", "H", "i" >>,
     << "d", "a", "t", "a", ":", "H", "i" >>}

OtherLines ==
    {S_connected, S_disconnected, << >>, << "D", "a", "t", "a", ":", " ", "H", "i" >>,
     << " ", "d", "a", "t", "a", ":", " ", "H", "i" >>,
     << "d", "a", "t" >>, << "d", "a", "t", "a" >>}

\* The lines that may follow the status line.
ResultLines == {T_ok, T_error, << >>, << "d", "a", "t", "a", ":", " ", "H", "i" >>}

\* The subprocess output as lines: a run of lines that begin with "data:", then
\* nothing, one line, or two lines.
LineStreams ==
    {d \o t : d \in SeqsUpTo(DataLines, MaxData),
              t \in {<< >>} \cup {<< x >> : x \in OtherLines}
                      \cup {<< x, y >> : x \in OtherLines, y \in ResultLines}}

LineResponses == [lines : LineStreams]

\* The subprocess output for a response of LineResponses: each line ended by
\* a line feed.
LineWire(r) == [i \in 1 .. Len(r.lines) |-> Encode(r.lines[i] \o T_NL)]

\* The subprocess output of each response.
WireOf ==
    [r \in Responses \cup StatusResponses \cup ConnResponses \cup LineResponses |->
        IF "fields" \in DOMAIN r THEN StatusWire(r)
        ELSE IF "lines" \in DOMAIN r THEN LineWire(r)
        ELSE Wire(r)]

\* The commands given to S3270.do.
Commands == {T_Enter, T_Quit, T_PrintTextString}

(***************************************************************************)
(* The state: the channel (buffer, statusMsg), and about the last call:    *)
(* what it was (call), what the subprocess output held (resp), what the    *)
(* call returned or raised (ret), the lines it wrote to the subprocess     *)
(* input (written) and the number of lines it read (nRead); answers is     *)
(* what the accessors of the channel's StatusMessage gave when the caller  *)
(* last asked them; conf is the client's Config.  client is the client     *)
(* the caller holds (None before one has been constructed);                *)
(* numOfInstances is P3270Client.numOfInstances and popens the number of   *)
(* subprocesses launched (calls of subprocess.Popen).  doCalls is the      *)
(* number of calls of S3270.do made so far and stdinWrites the number of   *)
(* lines written to the subprocess input so far.                           *)
(***************************************************************************)
VARIABLES buffer, statusMsg, ret, written, nRead, call, resp, answers, conf,
          client, numOfInstances, popens, doCalls, stdinWrites,
          selfCmd, threads, pipe, lock

vars ==
    << buffer, statusMsg, ret, written, nRead, call, resp, answers, conf,
       client, numOfInstances, popens, doCalls, stdinWrites,
       selfCmd, threads, pipe, lock >>

\* The threads that call the channel.
Threads == {1, 2}

\* A thread that is not inside a call.  Inside one: op is the operation of the
\* client it called and at the call of S3270.do it has come to; pc is its
\* position in S3270.do and S3270.check, arg the command it gave to S3270.do,
\* status the local statusMsg of S3270.check, ret what S3270.do returned, rets
\* what the calls of this operation returned so far, and out what the
\* operation returned.  For the properties: id numbers the call of S3270.do,
\* got lists, for each line it read, the call whose response the line belongs
\* to (0 at the end of the stream), and sent the lines the operation wrote.
IdleThread ==
    [pc |-> "idle", op |-> [name |-> "none"], at |-> 0, arg |-> << >>, status |-> << >>,
     ret |-> PyNone, rets |-> << >>, out |-> PyNone, id |-> 0, got |-> << >>, sent |-> << >>]

\* The subprocess has been launched: nothing written to its input, nothing on
\* its output, which is open.
EmptyPipe ==
    [stdin |-> << >>, pending |-> << >>, stdout |-> << >>, closed |-> FALSE, given |-> {}]

\* The state followed statement by statement: selfCmd is S3270.cmd (None
\* before the first command); threads gives, for each calling thread, its
\* position in the code and its local names; pipe is the subprocess: the lines
\* written to its input that it has not treated yet (stdin), the lines of the
\* response it is writing (pending), the lines on its output that have not
\* been read yet (stdout), whether it has closed its output (closed), and the
\* response it gave to each call that is under way (given); lock is the lock
\* the callers hold around a call, when they use one.
stepVars == << selfCmd, threads, pipe, lock >>

\* What the tests observe of a call, and the client.
mockVars ==
    << ret, written, nRead, call, resp, answers, conf, client, numOfInstances, popens >>

\* No thread is inside a call, as in the tests, which call from one thread
\* and replace the subprocess output before each call.
NoThreads ==
    /\ selfCmd = PyNone
    /\ threads = [t \in Threads |-> IdleThread]
    /\ pipe = EmptyPipe
    /\ lock = [used |-> FALSE, holder |-> 0]

\* The Config of P3270Client(): no configuration file, the default values.
DefaultConf == P3270ClientInit(ClientDefaults).conf

\* One client has been constructed with the arguments a.
Constructed(a) ==
    /\ client = P3270ClientInit(a).client
    /\ conf = P3270ClientInit(a).conf
    /\ numOfInstances = 1
    /\ popens = 1
    /\ doCalls = 0
    /\ stdinWrites = 0

\* P3270Client.__init__ with the default values, and S3270.__init__
Init ==
    /\ Constructed(ClientDefaults)
    /\ buffer = PyNone
    /\ statusMsg = PyNone
    /\ ret = PyNone
    /\ written = << >>
    /\ nRead = 0
    /\ call = [op |-> "none"]
    /\ resp = NoResponse
    /\ answers = PyNone
    /\ NoThreads

\* The caller is about to make a call: what the last call left to observe has
\* been cleared (the tests' resetMock).
Ready == call = [op |-> "none"]

\* One call of S3270.do(cmd), the subprocess output holding response r.
Do(cmd, r) ==
    /\ Ready
    /\ doCalls < MaxCalls
    /\ \E d \in {do(buffer, statusMsg, cmd, WireOf[r])} :
        /\ buffer' = d.buffer
        /\ statusMsg' = d.statusMsg
        /\ ret' = d.ret
        /\ written' = d.written
        /\ nRead' = d.nRead
        /\ doCalls' = doCalls + d.calls
        /\ stdinWrites' = stdinWrites + Len(d.written)
    /\ call' = [op |-> "do", cmd |-> cmd]
    /\ resp' = r
    /\ answers' = PyNone
    /\ UNCHANGED << conf, client, numOfInstances, popens >>
    /\ UNCHANGED stepVars

\* The tests' resetMock: the record of the writes is cleared and the subprocess
\* output is replaced; the channel keeps its buffer and status.
resetMock ==
    /\ ~Ready
    /\ ret' = PyNone
    /\ written' = << >>
    /\ nRead' = 0
    /\ call' = [op |-> "none"]
    /\ resp' = NoResponse
    /\ answers' = PyNone
    /\ UNCHANGED << buffer, statusMsg, conf, client, numOfInstances, popens, doCalls,
                    stdinWrites >>
    /\ UNCHANGED stepVars

Next ==
    \/ \E cmd \in Commands, r \in Responses : Do(cmd, r)
    \/ resetMock

Spec == Init /\ [][Next]_vars

(***************************************************************************)
(* The decoder alone: a command is answered by a status line of            *)
(* StatusResponses and the caller asks every accessor of the channel's     *)
(* StatusMessage, as test_statusMessage does.                              *)
(***************************************************************************)
\* The outcome of every accessor of sm.
askAll(sm) ==
    [isValid |-> isValid(sm),
     keyboardState |-> keyboardState(sm),
     screenFormatting |-> screenFormatting(sm),
     fieldProtection |-> fieldProtection(sm),
     connectionState |-> connectionState(sm),
     emulatorMode |-> emulatorMode(sm),
     modelNumber |-> modelNumber(sm),
     screenDefinition |-> screenDefinition(sm),
     cursorPosition |-> cursorPosition(sm),
     windowId |-> windowId(sm),
     execTime |-> execTime(sm)]

\* sendEnter, answered by response r.
sendEnter(r) == Do(T_Enter, r)

\* The caller reads s3270.statusMsg after the command and asks its accessors.
askStatus ==
    /\ call.op = "do"
    /\ answers = PyNone
    /\ answers' = askAll(statusMsg)
    /\ UNCHANGED << buffer, statusMsg, ret, written, nRead, call, resp, conf, client,
                    numOfInstances, popens, doCalls, stdinWrites >>
    /\ UNCHANGED stepVars

NextStatus ==
    \/ \E r \in StatusResponses : sendEnter(r)
    \/ askStatus
    \/ resetMock

SpecStatus == Init /\ [][NextStatus]_vars

(***************************************************************************)
(* The response reader alone: a channel that has served earlier commands   *)
(* sends one more, and the subprocess output holds the lines of            *)
(* LineStreams.                                                            *)
(***************************************************************************)
\* The channel after MaxCalls - 1 commands: none of them was answered by a data
\* line, or the last of them was answered by the data line "data: old".
InitLines ==
    /\ client = P3270ClientInit(ClientDefaults).client
    /\ conf = P3270ClientInit(ClientDefaults).conf
    /\ numOfInstances = 1
    /\ popens = 1
    /\ doCalls = MaxCalls - 1
    /\ stdinWrites = MaxCalls - 1
    /\ buffer \in {PyNone, PyStr(<< "o", "l", "d" >>)}
    /\ statusMsg = StatusMessage(S_connected)
    /\ ret = PyNone
    /\ written = << >>
    /\ nRead = 0
    /\ call = [op |-> "none"]
    /\ resp = NoResponse
    /\ answers = PyNone
    /\ NoThreads

NextLines ==
    \/ \E r \in LineResponses : sendEnter(r)
    \/ resetMock

SpecLines == InitLines /\ [][NextLines]_vars

(***************************************************************************)
(* The facade: the operations of P3270Client that take arguments.          *)
(***************************************************************************)
\* The arguments given to sendPF and sendPA: integers, and values of other
\* types.
KeyArgs ==
    {PyInt(k) : k \in (-3 .. MaxKey) \cup {37}}
        \cup {PyStr(<< "q" >>), PyStr(<< "7" >>), PyBool(TRUE), PyBool(FALSE),
              PyFloat(7), PyNone}

\* The arguments given to moveTo.
MoveArgs == {k + 1 : k \in CoordValues}

FileNames == {T_screen, T_absFile, << >>, << "a", "\n", "b" >>}

\* The texts given to sendText.
Texts == {<< "C", "E", "M", "T", " ", "I" >>, << >>, << "a", "\n", "b" >>, << "\"" >>}

\* The row, column, row count and column count given to readTextArea.
AreaArgs ==
    {<< 1, 1, 1, 1 >>, << 1, 1, 2, 2 >>, << 2, 3, 1, 4 >>, << 0, 1, 1, 1 >>, << 1, 0, 1, 1 >>,
     << 1, 1, 0, 1 >>, << 1, 1, 1, 0 >>, << -1, -1, -1, -1 >>}

DataTypes == {T_html, T_rtf, T_pdf, T_HTML, << >>}

\* The arguments the client is constructed with: the default values, and a
\* configuration file that names a screens directory with a timeout of 5 s.
FacadeClients ==
    {ClientDefaults,
     [ClientDefaults EXCEPT !.configFile = PyStr(T_okCfg), !.timeoutInSec = PyInt(5)]}

\* The configurations of the client: without and with a screens directory.
Configs == {P3270ClientInit(a).conf : a \in FacadeClients}

\* The responses given to the facade's commands.
FacadeResponses ==
    {r \in Responses :
        /\ r.nl = T_NL /\ ~r.bare
        /\ r.data \in {<< >>, << << "H", "i" >> >>}
        /\ r.result \in {T_ok, T_error}
        /\ Complete(r) \/ r.cut = 0}

InitFacade ==
    /\ \E a \in FacadeClients : Constructed(a)
    /\ buffer = PyNone
    /\ statusMsg = PyNone
    /\ ret = PyNone
    /\ written = << >>
    /\ nRead = 0
    /\ call = [op |-> "none"]
    /\ resp = NoResponse
    /\ answers = PyNone
    /\ NoThreads

\* The call has run: d is what it left.
Called(d, c, r) ==
    /\ buffer' = d.buffer
    /\ statusMsg' = d.statusMsg
    /\ ret' = d.ret
    /\ written' = d.written
    /\ nRead' = d.nRead
    /\ doCalls' = doCalls + d.calls
    /\ stdinWrites' = stdinWrites + Len(d.written)
    /\ call' = c
    /\ resp' = r
    /\ answers' = PyNone
    /\ UNCHANGED << conf, client, numOfInstances, popens >>
    /\ UNCHANGED stepVars

sendPF(n, r) ==
    /\ Ready
    /\ doCalls < MaxCalls
    /\ \E d \in {sendPFCall(buffer, statusMsg, n, WireOf[r])} :
        Called(d, [op |-> "sendPF", n |-> n], r)

sendPA(n, r) ==
    /\ Ready
    /\ doCalls < MaxCalls
    /\ \E d \in {sendPACall(buffer, statusMsg, n, WireOf[r])} :
        Called(d, [op |-> "sendPA", n |-> n], r)

moveTo(row, col, r) ==
    /\ Ready
    /\ doCalls < MaxCalls
    /\ \E d \in {moveToCall(buffer, statusMsg, row, col, WireOf[r])} :
        Called(d, [op |-> "moveTo", row |-> row, col |-> col], r)

saveScreen(fileName, dataType, r) ==
    /\ Ready
    /\ doCalls < MaxCalls
    /\ \E d \in {saveScreenCall(buffer, statusMsg, conf.screensDir, fileName, dataType, WireOf[r])} :
        Called(d, [op |-> "saveScreen", fileName |-> fileName, dataType |-> dataType], r)

sendText(text, r) ==
    /\ Ready
    /\ doCalls < MaxCalls
    /\ \E d \in {sendTextCall(buffer, statusMsg, text, WireOf[r])} :
        Called(d, [op |-> "sendText", text |-> text], r)

readTextArea(a, r) ==
    /\ Ready
    /\ doCalls < MaxCalls
    /\ \E d \in {readTextAreaCall(buffer, statusMsg, a[1], a[2], a[3], a[4], WireOf[r])} :
        Called(d, [op |-> "readTextArea", area |-> a], r)

waitForField(r) ==
    /\ Ready
    /\ doCalls < MaxCalls
    /\ \E d \in {waitForFieldCall(buffer, statusMsg, client.timeout, WireOf[r])} :
        Called(d, [op |-> "waitForField"], r)

NextFacade ==
    \/ \E n \in KeyArgs, r \in FacadeResponses : sendPF(n, r)
    \/ \E n \in KeyArgs, r \in FacadeResponses : sendPA(n, r)
    \/ \E row, col \in MoveArgs, r \in FacadeResponses : moveTo(row, col, r)
    \/ \E f \in FileNames, t \in DataTypes, r \in FacadeResponses : saveScreen(f, t, r)
    \/ \E text \in Texts, r \in FacadeResponses : sendText(text, r)
    \/ \E a \in AreaArgs, r \in FacadeResponses : readTextArea(a, r)
    \/ \E r \in FacadeResponses : waitForField(r)
    \/ resetMock

SpecFacade == InitFacade /\ [][NextFacade]_vars

(***************************************************************************)
(* The facade's read operations: the screen and the text at a position are *)
(* read, and a text is looked for or typed into a field, on a channel that *)
(* earlier commands have used.                                             *)
(***************************************************************************)
\* The responses given to the read operations: with and without a data line,
\* accepted and refused, the status line valid.
ReadResponses ==
    {r \in FacadeResponses : Complete(r) /\ r.status = S_connected}

\* The texts looked for and typed: the payload of the responses, another
\* text, and the empty text.
FieldTexts == {<< "H", "i" >>, << "y", "o" >>, << >>}

\* The positions read: row, column and length.
PositionArgs == {<< 1, 1, 2 >>, << 2, 3, 4 >>, << 0, 0, 0 >>}

\* The responses to the four commands of trySendTextToField.
FourResponses ==
    {[parts |-> << a, b, c, d >>] : a, b, c, d \in ReadResponses}

\* The subprocess output that holds the responses of rs one after the other.
PartsWire(rs) ==
    WireOf[rs.parts[1]] \o WireOf[rs.parts[2]] \o WireOf[rs.parts[3]] \o WireOf[rs.parts[4]]

getScreen(r) ==
    /\ Ready
    /\ doCalls < MaxCalls
    /\ \E d \in {getScreenCall(buffer, statusMsg, WireOf[r])} :
        Called(d, [op |-> "getScreen"], r)

readTextAtPosition(a, r) ==
    /\ Ready
    /\ doCalls < MaxCalls
    /\ \E d \in {readTextAtPositionCall(buffer, statusMsg, a[1], a[2], a[3], WireOf[r])} :
        Called(d, [op |-> "readTextAtPosition", at |-> a], r)

foundTextAtPosition(row, col, sent_text, r) ==
    /\ Ready
    /\ doCalls < MaxCalls
    /\ \E d \in {foundTextAtPositionCall(buffer, statusMsg, row, col, sent_text, WireOf[r])} :
        Called(d, [op |-> "foundTextAtPosition", row |-> row, col |-> col,
                   text |-> sent_text], r)

trySendTextToField(text, row, col, rs) ==
    /\ Ready
    /\ doCalls < MaxCalls
    /\ \E d \in {trySendTextToFieldCall(buffer, statusMsg, text, row, col, PartsWire(rs))} :
        Called(d, [op |-> "trySendTextToField", row |-> row, col |-> col,
                   text |-> text], rs)

NextRead ==
    \/ \E r \in ReadResponses : getScreen(r)
    \/ \E a \in PositionArgs, r \in ReadResponses : readTextAtPosition(a, r)
    \/ \E a \in AreaArgs, r \in ReadResponses : readTextArea(a, r)
    \/ \E t \in FieldTexts, r \in ReadResponses : foundTextAtPosition(1, 1, t, r)
    \/ \E t \in FieldTexts, rs \in FourResponses : trySendTextToField(t, 1, 1, rs)
    \/ resetMock

SpecRead == Init /\ [][NextRead]_vars

(***************************************************************************)
(* Construction: clients and configurations are constructed from varied    *)
(* arguments and configuration files, and the client constructed last      *)
(* connects and asks for its connection state.                             *)
(***************************************************************************)
\* The arguments given to P3270Client: logical-unit name, enableTLS and
\* configuration file in every combination, then one argument varied.
ClientArgs ==
    {[ClientDefaults EXCEPT !.luName = lu, !.enableTLS = tls, !.configFile = f] :
        lu \in {PyNone, PyStr(<< "L", "U", "1" >>)},
        tls \in {PyStr(T_yes), PyStr(T_no)},
        f \in {PyNone, PyStr(T_tlsCfg)}}
    \cup {[ClientDefaults EXCEPT !.luName = PyStr(<< >>)]}
    \cup {[ClientDefaults EXCEPT !.hostPort = x] :
            x \in {PyStr(<< "0" >>), PyStr(<< "6", "5", "5", "3", "5" >>),
                   PyStr(<< "6", "5", "5", "3", "6" >>), PyStr(<< "a", "b", "c" >>),
                   PyStr(<< "-", "1" >>), PyStr(<< >>), PyInt(0)}}
    \cup {[ClientDefaults EXCEPT !.modelName = PyStr(x)] :
            x \in {<< "3", "2", "7", "8", "-", "5" >>, << "3", "2", "7", "0" >>, << >>}}
    \cup {[ClientDefaults EXCEPT !.codePage = x] :
            x \in {PyStr(<< "z", "z" >>), PyStr(<< >>), PyNone}}
    \cup {[ClientDefaults EXCEPT !.configFile = PyStr(x)] :
            x \in {T_okCfg, T_flagsCfg, T_koCfg, T_portCfg, T_noCfg}}
    \cup {[ClientDefaults EXCEPT !.verifyCert = PyStr(<< "x" >>)]}

\* A value that breaks the rule of an attribute, and one that keeps it.
ModelValues == {PyStr(T_3279_2), PyStr(<< "3", "2", "7", "0" >>)}
PortValues == {PyStr(T_23), PyStr(<< "0" >>)}
CodePageValues == {PyStr(T_cp037), PyStr(<< "z", "z" >>)}
ScreensDirValues == {PyStr(T_screensDir), PyStr(<< "/", "n" >>)}
FlagValues == {PyStr(T_yes), PyStr(<< "Y", "e", "s" >>)}

\* The arguments given to Config: every combination of kept and broken
\* rules, then one argument varied.
ConfigArgs ==
    {[ConfigDefaults EXCEPT !.modelName = m, !.hostPort = p, !.codePage = cp,
                            !.screensDir = sd, !.verifyCert = vc, !.enableTLS = tls] :
        m \in ModelValues, p \in PortValues, cp \in CodePageValues,
        sd \in ScreensDirValues, vc \in FlagValues, tls \in FlagValues}
    \cup {[ConfigDefaults EXCEPT !.hostPort = x] :
            x \in {PyStr(<< "1" >>), PyStr(<< "6", "5", "5", "3", "5" >>),
                   PyStr(<< "6", "5", "5", "3", "6" >>), PyStr(<< "a", "b", "c" >>),
                   PyStr(<< "-", "1" >>), PyStr(<< " ", "8", "0" >>), PyStr(<< >>),
                   PyStr(<< "8", "0", ".", "5" >>), PyInt(23), PyInt(65536)}}
    \cup {[ConfigDefaults EXCEPT !.modelName = PyStr(m)] : m \in validModels \cup {<< >>}}
    \cup {[ConfigDefaults EXCEPT !.codePage = x] :
            x \in {PyNone, PyStr(<< >>), PyStr(<< "c", "p", "9", "3", "0" >>),
                   PyStr(<< "C", "P", "0", "3", "7" >>)}}
    \cup {[ConfigDefaults EXCEPT !.screensDir = x] : x \in {PyNone, PyStr(<< >>)}}
    \cup {[ConfigDefaults EXCEPT !.verifyCert = x] :
            x \in {PyNone, PyStr(<< >>), PyStr(T_no), PyStr(<< "n" >>)}}
    \cup {[ConfigDefaults EXCEPT !.enableTLS = x] :
            x \in {PyNone, PyStr(<< >>), PyStr(T_no), PyStr(<< "t", "r", "u", "e" >>)}}
    \cup {[ConfigDefaults EXCEPT !.cfgFile = PyStr(x)] : x \in ConfigFiles \cup {T_noCfg}}
    \cup {[ConfigDefaults EXCEPT !.cfgFile = PyStr(x), !.hostPort = PyStr(<< "0" >>),
                                 !.enableTLS = PyStr(T_yes)] : x \in ConfigFiles}
    \cup {[ConfigDefaults EXCEPT !.luName = PyStr(<< "L", "U", "1" >>), !.traceFile = x] :
            x \in {PyNone, PyStr(<< "t" >>)}}

\* No client has been constructed.
InitClient ==
    /\ client = PyNone
    /\ conf = PyNone
    /\ numOfInstances = 0
    /\ popens = 0
    /\ doCalls = 0
    /\ stdinWrites = 0
    /\ buffer = PyNone
    /\ statusMsg = PyNone
    /\ ret = PyNone
    /\ written = << >>
    /\ nRead = 0
    /\ call = [op |-> "none"]
    /\ resp = NoResponse
    /\ answers = PyNone
    /\ NoThreads

\* client = P3270Client(**a), before any command is sent (the tests' setUp):
\* when the constructor raises, the caller keeps the client it had.
NewClient(a) ==
    /\ Ready
    /\ doCalls = 0
    /\ numOfInstances < MaxInstances
    /\ \E k \in {P3270ClientInit(a)} :
        /\ ret' = k.ret
        /\ popens' = popens + k.popens
        /\ numOfInstances' = numOfInstances + k.counted
        /\ IF k.ret.t = "raise"
           THEN UNCHANGED << client, conf, buffer, statusMsg >>
           ELSE /\ client' = k.client
                /\ conf' = k.conf
                /\ buffer' = PyNone
                /\ statusMsg' = PyNone
    /\ call' = [op |-> "P3270Client", args |-> a]
    /\ UNCHANGED << written, nRead, resp, answers, doCalls, stdinWrites >>
    /\ UNCHANGED stepVars

\* Config(**a): the caller receives the Config, or the exception.
NewConfig(a) ==
    /\ Ready
    /\ ret' = ConfigInit(a)
    /\ call' = [op |-> "Config", args |-> a]
    /\ UNCHANGED << buffer, statusMsg, written, nRead, resp, answers, conf, client,
                    numOfInstances, popens, doCalls, stdinWrites >>
    /\ UNCHANGED stepVars

connect(r) ==
    /\ Ready
    /\ client # PyNone
    /\ doCalls < MaxCalls
    /\ \E d \in {connectCall(buffer, statusMsg, conf, WireOf[r])} :
        Called(d, [op |-> "connect"], r)

isConnected(r) ==
    /\ Ready
    /\ client # PyNone
    /\ doCalls < MaxCalls
    /\ \E d \in {isConnectedCall(buffer, statusMsg, WireOf[r])} :
        Called(d, [op |-> "isConnected"], r)

NextClient ==
    \/ \E a \in ClientArgs : NewClient(a)
    \/ \E r \in FacadeResponses : connect(r)
    \/ \E r \in ConnResponses : isConnected(r)
    \/ resetMock

SpecClient == InitClient /\ [][NextClient]_vars

\* Configurations alone are constructed.
NextConfig ==
    \/ \E a \in ConfigArgs : NewConfig(a)
    \/ resetMock

SpecConfig == InitClient /\ [][NextConfig]_vars

(***************************************************************************)
(* S3270.do and S3270.check statement by statement, for one or more        *)
(* calling threads, against a subprocess that answers the commands it      *)
(* receives.  One step is one statement that touches the channel or the    *)
(* subprocess; a readline, the test of the line and the assignment that    *)
(* follows it are one step.                                                *)
(***************************************************************************)
\* A bytes value
PyBytes(b) == [t |-> "bytes", v |-> b]

\* The line b'Quit\n'
QuitLine == << 81, 117, 105, 116, 10 >>

\* The command a call of the facade gave to S3270.do: the line it wrote,
\* without its line feed.
CommandOf(d) == LET b == d.written[1] IN Decode(SubSeq(b, 1, Len(b) - 1))

\* The command of the i-th call of S3270.do that operation o makes.
CommandAt(o, i) ==
    IF o.name = "do" THEN o.cmd
    ELSE CASE i = 1 -> CommandOf(moveToCall(PyNone, PyNone, o.row, o.col, << >>))
           [] i = 2 -> CommandOf(delFieldCall(PyNone, PyNone, << >>))
           [] i = 3 -> CommandOf(sendTextCall(PyNone, PyNone, o.text, << >>))
           [] i = 4 -> CommandOf(readTextAtPositionCall(PyNone, PyNone, o.row, o.col,
                                                        Len(o.text), << >>))

\* The number of calls of S3270.do that operation o makes.
CallsOf(o) == IF o.name = "do" THEN 1 ELSE 4

\* Thread record th enters S3270.do(c), its call being number id.
StartDo(th, c, id) ==
    [th EXCEPT !.pc = "write", !.arg = c, !.status = << >>, !.ret = PyNone,
               !.id = id, !.got = << >>]

\* One line of S3270.check: the test of the line read and what it does to the
\* buffer; first tells the first line of the response from the later ones.
readLine(buf, data, first) ==
    IF ~StartsWith(data, T_data)
    THEN [isData |-> FALSE, buffer |-> buf]
    ELSE [isData |-> TRUE,
          buffer |-> IF first THEN PyStr(SliceFrom(data, PrefixSkip))
                     ELSE appendData(buf, data)]

\* readline() waits for a line even after the subprocess has closed its output.
CanReadLine(p) == p.stdout # << >>

\* readline() returns: a line is there, or the subprocess has closed its
\* output (the end of the stream, where it returns b'').
CanRead(p) == p.stdout # << >> \/ p.closed

\* The line readline() returns, b'' at the end of the stream.
NextLine == IF pipe.stdout # << >> THEN Head(pipe.stdout) ELSE [line |-> << >>, id |-> 0]

\* The subprocess output once the line has been read.
AfterRead == [pipe EXCEPT !.stdout = IF pipe.stdout # << >> THEN Tail(pipe.stdout) ELSE << >>]

\* The caller takes the lock, if the callers use one.
Acquire(t) ==
    /\ lock.used => lock.holder = 0
    /\ lock' = IF lock.used THEN [lock EXCEPT !.holder = t] ELSE lock

\* Thread t calls operation o of the client, which calls S3270.do:
\* self.cmd = cmd.encode(self.encoding) + b'\n'
begin(t, o) ==
    /\ threads[t].pc = "idle"
    /\ doCalls < MaxCalls
    /\ Acquire(t)
    /\ threads' = [threads EXCEPT ![t] =
                      StartDo([IdleThread EXCEPT !.op = o, !.at = 1], CommandAt(o, 1),
                              doCalls + 1)]
    /\ selfCmd' = PyBytes(cmdBytes(CommandAt(o, 1)))
    /\ doCalls' = doCalls + 1
    /\ UNCHANGED << buffer, statusMsg, pipe, stdinWrites >>
    /\ UNCHANGED mockVars

\* self.subpro.stdin.write(self.cmd); self.subpro.stdin.flush()
doWrite(t) ==
    /\ threads[t].pc = "write"
    /\ pipe' = [pipe EXCEPT !.stdin = Append(@, [line |-> selfCmd.v, id |-> threads[t].id])]
    /\ threads' = [threads EXCEPT ![t].pc = "test", ![t].sent = Append(@, selfCmd.v)]
    /\ stdinWrites' = stdinWrites + 1
    /\ UNCHANGED << buffer, statusMsg, selfCmd, lock, doCalls >>
    /\ UNCHANGED mockVars

\* if self.cmd == b'Quit\n': return self.check(True)
doTest(t) ==
    /\ threads[t].pc = "test"
    /\ threads' = [threads EXCEPT ![t] =
                      IF selfCmd.v = QuitLine
                      THEN [@ EXCEPT !.pc = "returned", !.ret = PyBool(TRUE),
                                     !.rets = Append(@, PyBool(TRUE))]
                      ELSE [@ EXCEPT !.pc = "line1"]]
    /\ UNCHANGED << buffer, statusMsg, selfCmd, pipe, lock, doCalls, stdinWrites >>
    /\ UNCHANGED mockVars

\* data = readline()...; if not data.startswith('data:'): statusMsg = data;
\* else the buffer takes the payload: at the first line, at the second line
\* and in the while loop.
checkLine(t) ==
    /\ threads[t].pc \in {"line1", "line2", "loop"}
    /\ CanRead(pipe)
    /\ LET data == ReadText(<< NextLine.line >>, 1)
           k == readLine(buffer, data, threads[t].pc = "line1")
       IN  /\ buffer' = k.buffer
           /\ threads' = [threads EXCEPT ![t] =
                             [@ EXCEPT !.got = Append(@, NextLine.id),
                                       !.status = IF k.isData THEN @ ELSE data,
                                       !.pc = IF ~k.isData THEN "result"
                                              ELSE IF @ = "line1" THEN "line2"
                                              ELSE "loop"]]
    /\ pipe' = AfterRead
    /\ UNCHANGED << statusMsg, selfCmd, lock, doCalls, stdinWrites >>
    /\ UNCHANGED mockVars

\* S3270.check returns once it has the status line: the result token is left
\* on the subprocess output and the command counts as accepted.
checkResultUnread(t) ==
    /\ threads[t].pc = "result"
    /\ statusMsg' = StatusMessage(threads[t].status)
    /\ threads' = [threads EXCEPT ![t] =
                      [@ EXCEPT !.pc = "returned", !.ret = PyBool(TRUE),
                                !.rets = Append(@, PyBool(TRUE))]]
    /\ UNCHANGED << buffer, selfCmd, pipe, lock, doCalls, stdinWrites >>
    /\ UNCHANGED mockVars

\* returnMsg = readline()...; self.statusMsg = StatusMessage(statusMsg);
\* return returnMsg == 'ok'
checkResult(t) ==
    /\ threads[t].pc = "result"
    /\ CanRead(pipe)
    /\ LET c == checkReturn(buffer, threads[t].status, << NextLine.line >>, 1)
       IN  /\ statusMsg' = c.statusMsg
           /\ threads' = [threads EXCEPT ![t] =
                             [@ EXCEPT !.pc = "returned", !.ret = c.ret.v,
                                       !.rets = Append(@, c.ret.v),
                                       !.got = Append(@, NextLine.id)]]
    /\ pipe' = AfterRead
    /\ UNCHANGED << buffer, selfCmd, lock, doCalls, stdinWrites >>
    /\ UNCHANGED mockVars

\* trySendTextToField stops at the first command that the subprocess refuses.
nextCommandIfAccepted(t) ==
    /\ threads[t].pc = "returned"
    /\ threads[t].at < CallsOf(threads[t].op)
    /\ IF threads[t].ret = PyBool(TRUE)
       THEN LET c == CommandAt(threads[t].op, threads[t].at + 1)
            IN  /\ threads' = [threads EXCEPT ![t] =
                                  StartDo([@ EXCEPT !.at = @ + 1], c, doCalls + 1)]
                /\ selfCmd' = PyBytes(cmdBytes(c))
                /\ doCalls' = doCalls + 1
                /\ pipe' = [pipe EXCEPT !.given = {g \in @ : g[1] # threads[t].id}]
       ELSE /\ threads' = [threads EXCEPT ![t].pc = "done", ![t].out = PyBool(FALSE)]
            /\ UNCHANGED << selfCmd, doCalls, pipe >>
    /\ UNCHANGED << buffer, statusMsg, lock, stdinWrites >>
    /\ UNCHANGED mockVars

\* S3270.do has returned and the operation goes on to its next call of
\* S3270.do, whatever the call before returned.
nextCommand(t) ==
    /\ threads[t].pc = "returned"
    /\ threads[t].at < CallsOf(threads[t].op)
    /\ LET c == CommandAt(threads[t].op, threads[t].at + 1)
       IN  /\ threads' = [threads EXCEPT ![t] =
                             StartDo([@ EXCEPT !.at = @ + 1], c, doCalls + 1)]
           /\ selfCmd' = PyBytes(cmdBytes(c))
    /\ pipe' = [pipe EXCEPT !.given = {g \in @ : g[1] # threads[t].id}]
    /\ doCalls' = doCalls + 1
    /\ UNCHANGED << buffer, statusMsg, lock, stdinWrites >>
    /\ UNCHANGED mockVars

\* The last call of S3270.do of the operation has returned and the operation
\* returns: what S3270.do returned, or, for trySendTextToField, text == result,
\* result being the buffer of the channel.
finish(t) ==
    /\ threads[t].pc = "returned"
    /\ threads[t].at = CallsOf(threads[t].op)
    /\ threads' = [threads EXCEPT ![t] =
                      [@ EXCEPT !.pc = "done",
                                !.out = IF threads[t].op.name = "do" THEN threads[t].ret
                                        ELSE PyBool(PyStr(threads[t].op.text) = buffer)]]
    /\ UNCHANGED << buffer, statusMsg, selfCmd, pipe, lock, doCalls, stdinWrites >>
    /\ UNCHANGED mockVars

\* The caller has what the operation returned, and releases the lock if the
\* callers use one.
collect(t) ==
    /\ threads[t].pc = "done"
    /\ threads' = [threads EXCEPT ![t] = IdleThread]
    /\ pipe' = [pipe EXCEPT !.given = {g \in @ : g[1] # threads[t].id}]
    /\ lock' = [lock EXCEPT !.holder = 0]
    /\ UNCHANGED << buffer, statusMsg, selfCmd, doCalls, stdinWrites >>
    /\ UNCHANGED mockVars

\* The subprocess takes the next command on its input and answers it with
\* response r, which it is about to write.
respond(r) ==
    /\ pipe.stdin # << >> /\ pipe.pending = << >> /\ ~pipe.closed
    /\ Head(pipe.stdin).line # QuitLine
    /\ pipe' = [pipe EXCEPT !.stdin = Tail(@),
                            !.pending = [i \in 1 .. Len(WireOf[r]) |->
                                            [line |-> WireOf[r][i], id |-> Head(pipe.stdin).id]],
                            !.given = @ \cup {<< Head(pipe.stdin).id, r >>}]
    /\ UNCHANGED << buffer, statusMsg, selfCmd, threads, lock, doCalls, stdinWrites >>
    /\ UNCHANGED mockVars

\* The subprocess writes the next line of its response.
emit ==
    /\ pipe.pending # << >>
    /\ pipe' = [pipe EXCEPT !.pending = Tail(@), !.stdout = Append(@, Head(pipe.pending))]
    /\ UNCHANGED << buffer, statusMsg, selfCmd, threads, lock, doCalls, stdinWrites >>
    /\ UNCHANGED mockVars

\* The subprocess takes 'Quit' and exits: its output is closed.
exit ==
    /\ pipe.stdin # << >> /\ pipe.pending = << >> /\ ~pipe.closed
    /\ Head(pipe.stdin).line = QuitLine
    /\ pipe' = [pipe EXCEPT !.stdin = Tail(@), !.closed = TRUE]
    /\ UNCHANGED << buffer, statusMsg, selfCmd, threads, lock, doCalls, stdinWrites >>
    /\ UNCHANGED mockVars

\* The responses of the subprocess: no data line, one, and three (the three
\* reading sites of S3270.check), the status valid or not, accepted or refused.
StreamResponses ==
    {r \in CompleteResponses :
        /\ Complete(r)
        /\ r.data \in {<< >>, << << "H", "i" >> >>, << << >>, << "H", "i" >>, << "H", "i" >> >>}
        /\ r.result \in {T_ok, T_error}}

\* The statements of thread t inside a call.
Step(t) ==
    \/ doWrite(t)
    \/ doTest(t)
    \/ checkLine(t)
    \/ checkResult(t)
    \/ finish(t)
    \/ collect(t)

\* The calls of S3270.do of one caller: do(cmd) for each command.
StreamOps == {[name |-> "do", cmd |-> c] : c \in Commands}

\* One caller sends commands one after the other.
NextStream ==
    \/ \E o \in StreamOps : begin(1, o)
    \/ Step(1)
    \/ \E r \in StreamResponses : respond(r)
    \/ emit
    \/ exit

SpecStream == Init /\ [][NextStream]_vars

(***************************************************************************)
(* One caller types a text into a field with trySendTextToField, the       *)
(* subprocess answering each of its commands.                              *)
(***************************************************************************)
\* The texts typed and the positions of the field.
FieldOps ==
    {[name |-> "trySendTextToField", text |-> x, row |-> a[1], col |-> a[2]] :
        x \in {<< "H", "i" >>, << "a", "\n", "b" >>}, a \in {<< 1, 1 >>, << 0, 12 >>}}

\* The responses to its commands: accepted and refused, with and without data.
FieldResponses ==
    {r \in StreamResponses : r.status = S_connected /\ Len(r.data) <= 1}

NextField ==
    \/ \E o \in FieldOps : begin(1, o)
    \/ Step(1)
    \/ nextCommand(1)
    \/ \E r \in FieldResponses : respond(r)
    \/ emit

SpecField == Init /\ [][NextField]_vars

(***************************************************************************)
(* Two threads call S3270.do on the same channel.  The callers either hold *)
(* a lock of their own around each call, or use none.                      *)
(***************************************************************************)
\* The commands the threads send.
ThreadCommands == {T_Enter, T_PrintTextString}

\* The responses of the subprocess: accepted without data, and refused with a
\* data line and a status line that is not valid.
ThreadResponses ==
    {r \in StreamResponses :
        \/ r.data = << >> /\ r.status = S_connected /\ r.result = T_ok
        \/ r.data = << << "H", "i" >> >> /\ r.status = S_empty /\ r.result = T_error}

InitThreads ==
    /\ Constructed(ClientDefaults)
    /\ buffer = PyNone
    /\ statusMsg = PyNone
    /\ ret = PyNone
    /\ written = << >>
    /\ nRead = 0
    /\ call = [op |-> "none"]
    /\ resp = NoResponse
    /\ answers = PyNone
    /\ selfCmd = PyNone
    /\ threads = [t \in Threads |-> IdleThread]
    /\ pipe = EmptyPipe
    /\ lock \in [used : BOOLEAN, holder : {0}]

\* The calls of S3270.do the two callers make.
ThreadOps == {[name |-> "do", cmd |-> c] : c \in ThreadCommands}

NextThreads ==
    \/ \E t \in Threads, o \in ThreadOps :
            doCalls < MaxThreadCalls /\ begin(t, o)
    \/ \E t \in Threads : Step(t)
    \/ \E r \in ThreadResponses : respond(r)
    \/ emit

SpecThreads == InitThreads /\ [][NextThreads]_vars

(***************************************************************************)
(* A subprocess output that is finite: it holds some lines, after which    *)
(* the subprocess has closed it (the end of the stream) or writes no more  *)
(* and leaves it open.  One call of S3270.do reads it; a thread inside a   *)
(* call goes on to its next statement whenever it can.                     *)
(***************************************************************************)
\* The lines of such an output: data lines, status lines, result tokens and
\* the empty line, in any order.
FiniteStreams ==
    SeqsUpTo({T_data \o << " ", "H", "i" >>, S_connected, T_ok, << >>}, MaxLines)

InitFinite ==
    /\ client = P3270ClientInit(ClientDefaults).client
    /\ conf = P3270ClientInit(ClientDefaults).conf
    /\ numOfInstances = 1
    /\ popens = 1
    /\ doCalls = MaxCalls - 1
    /\ stdinWrites = MaxCalls - 1
    /\ buffer = PyNone
    /\ statusMsg = StatusMessage(S_connected)
    /\ ret = PyNone
    /\ written = << >>
    /\ nRead = 0
    /\ call = [op |-> "none"]
    /\ answers = PyNone
    /\ selfCmd = PyBytes(cmdBytes(T_Enter))
    /\ threads = [t \in Threads |-> IdleThread]
    /\ lock = [used |-> FALSE, holder |-> 0]
    /\ \E L \in FiniteStreams, c \in BOOLEAN :
        /\ resp = [lines |-> L]
        /\ pipe = [EmptyPipe EXCEPT
                      !.stdout = [i \in 1 .. Len(L) |-> [line |-> Encode(L[i] \o T_NL), id |-> 0]],
                      !.closed = c]

\* The one call made on the finite output: do('Enter').
FiniteOps == {[name |-> "do", cmd |-> T_Enter]}

NextFinite ==
    \/ \E o \in FiniteOps : begin(1, o)
    \/ Step(1)

SpecFinite == InitFinite /\ [][NextFinite]_vars /\ WF_vars(Step(1))

(***************************************************************************)
(* The channel's claims, stated for Spec.                                *)
(***************************************************************************)
\* The last call was S3270.do with a command other than 'Quit'.
DidCommand == call.op = "do" /\ call.cmd # T_Quit

\* C1: after S3270.do of a command other than 'Quit' whose response has N >= 1
\* data lines, then the status line and the result token, the buffer is the N
\* payloads of this response joined by a newline, in the order of arrival, and
\* nothing else (no earlier payload, nothing of the status line or the token).
C1_BufferIsOwnPayloads ==
    (DidCommand /\ Complete(resp) /\ Len(resp.data) >= 1)
        => buffer = PyStr(Join(resp.data, << "\n" >>))

\* A command answered by three data lines, not all alike, has been read.
C1_Witness ==
    /\ DidCommand /\ Complete(resp) /\ Len(resp.data) = 3
    /\ resp.data[1] # resp.data[2]
    /\ buffer = PyStr(Join(resp.data, << "\n" >>))

\* C2, as claimed: whenever S3270.do of a command other than 'Quit' receives a
\* response without data lines, the buffer after the call is None, and the
\* status and the result are those of this response.
C2_NoDataBufferAbsent ==
    (DidCommand /\ Complete(resp) /\ Len(resp.data) = 0)
        => /\ buffer = PyNone
           /\ statusMsg = StatusMessage(resp.status)
           /\ ret = Return(PyBool(resp.result = T_ok))

\* C3: S3270.do of a command other than 'Quit' returns True if and only if the
\* result token, the line read after the status line, is exactly "ok"; any
\* other token gives False, with or without data lines in the response.
C3_TrueIffOk ==
    (DidCommand /\ Complete(resp)) => ret = Return(PyBool(resp.result = T_ok))

\* A response with data lines and a token that only begins with "ok" gave False.
C3_Witness ==
    /\ DidCommand /\ Complete(resp) /\ Len(resp.data) >= 1
    /\ resp.result = T_okay
    /\ ret = Return(PyBool(FALSE))

\* C4, as claimed: when the stream ends before the result token of the command
\* has been read, S3270.do raises, and does not return False.
C4_EndOfStreamIsFatal ==
    (DidCommand /\ ~Complete(resp)) => ret.t = "raise"

\* C5: S3270.do('Quit') writes exactly the line "Quit\n", reads no line of the
\* subprocess output and returns True, whatever the channel and the output hold.
C5_QuitWritesAndReturns ==
    (call.op = "do" /\ call.cmd = T_Quit)
        => /\ written = << << 81, 117, 105, 116, 10 >> >>
           /\ nRead = 0
           /\ ret = Return(PyBool(TRUE))

\* 'Quit' was sent on a channel that holds a buffer, the output holding lines.
C5_Witness ==
    /\ call.op = "do" /\ call.cmd = T_Quit
    /\ resp.cut > 0
    /\ buffer # PyNone
    /\ ret = Return(PyBool(TRUE))

\* C15: no automatic retry.  Each call of S3270.do writes its command once,
\* whatever the outcome, so that over any sequence of calls the number of
\* lines written equals the number of calls; and a command that failed
\* (result "error", with or without a data line, valid status line or not)
\* returns False and leaves the status and the data of its own response.
C15_NoRetry ==
    /\ stdinWrites = doCalls
    /\ (call.op = "do") => written = << Encode(call.cmd \o << "\n" >>) >>
    /\ (DidCommand /\ Complete(resp) /\ resp.result # T_ok)
        => /\ ret = Return(PyBool(FALSE))
           /\ statusMsg = StatusMessage(resp.status)
           /\ Len(resp.data) >= 1 => buffer = PyStr(Join(resp.data, << "\n" >>))

\* The second call or a later one failed with a data line ("error" after an
\* invalid status line): it wrote one line, as every call before it.
C15_Witness ==
    /\ doCalls >= 2 /\ stdinWrites = doCalls
    /\ DidCommand /\ Complete(resp) /\ resp.result = T_error
    /\ resp.status = S_empty /\ Len(resp.data) >= 1
    /\ Len(written) = 1
    /\ ret = Return(PyBool(FALSE))

\* The status line that S3270.do has read from the stream of response r: the
\* line after the data lines, the empty text when the stream ends before it.
StatusRead(r) == IF r.cut > Len(r.data) THEN r.status ELSE << >>

\* C20: before the first command the buffer and the status of the channel are
\* both None; after every S3270.do(cmd), cmd not 'Quit', the status is the
\* StatusMessage decoded from the status line of the response to this
\* command, valid or not, and never the status an earlier command left.
C20_StatusIsOwn ==
    /\ (doCalls = 0) => (buffer = PyNone /\ statusMsg = PyNone)
    /\ DidCommand => statusMsg = StatusMessage(StatusRead(resp))

\* The second command or a later one was answered by an invalid status line
\* and "error": the channel holds the invalid status.
C20_Witness ==
    /\ doCalls >= 2
    /\ DidCommand /\ Complete(resp) /\ resp.status = S_empty /\ resp.result = T_error
    /\ statusMsg = StatusMessage(<< >>)
    /\ ~isValid(statusMsg)

(***************************************************************************)
(* The decoder's claims, stated for SpecStatus.                         *)
(***************************************************************************)
\* The caller has asked the accessors of the status of the last response.
Asked == answers # PyNone

\* The fields of the status line as white space separates them: its
\* non-empty tokens.
RealFields(r) == SelectSeq(r.fields, LAMBDA f : f # << >>)

\* The status line is 12 tokens separated by single blanks.
TwelveTokens(r) == Len(r.fields) = 12 /\ r.sep = << " " >>

Accessors ==
    {"keyboardState", "screenFormatting", "fieldProtection", "connectionState",
     "emulatorMode", "modelNumber", "screenDefinition", "cursorPosition",
     "windowId", "execTime"}

\* C6, as claimed: for every status text that does not consist of exactly 12
\* fields separated by white space, isValid() is False and each of the 10
\* accessors returns None without raising.
C6_Not12FieldsAllAbsent ==
    (Asked /\ Len(RealFields(resp)) # 12)
        => /\ answers.isValid = FALSE
           /\ \A a \in Accessors : answers[a] = Return(PyNone)

\* The letter codes of the status line and what they decode to.
KeyboardTable(x) ==
    CASE x = << "U" >> -> Lit("Unlocked")
      [] x = << "L" >> -> Lit("Locked")
      [] x = << "E" >> -> Lit("Locked because of an operator error")
      [] OTHER -> PyNone

ScreenTable(x) ==
    CASE x = << "F" >> -> Lit("Formatted")
      [] x = << "U" >> -> Lit("Unformatted")
      [] OTHER -> PyNone

ModeTable(x) ==
    CASE x = << "I" >> -> Lit("3270")
      [] x = << "L" >> -> Lit("NVT Line")
      [] x = << "C" >> -> Lit("NVT Character")
      [] x = << "P" >> -> Lit("Unnegotiated")
      [] x = << "N" >> -> Lit("Not connected")
      [] OTHER -> PyNone

ProtectionTable(x) ==
    CASE x = << "P" >> -> Lit("Protected")
      [] x = << "U" >> -> Lit("Unprotected")
      [] OTHER -> Lit("Unknown")

\* C7: for every valid status line (12 tokens) keyboardState, screenFormatting
\* and emulatorMode decode tokens 0, 1 and 4 by their tables, any other value
\* giving None; fieldProtection decodes token 2, any other value giving
\* 'Unknown'; modelNumber and execTime return tokens 5 and 11 as they are;
\* windowId returns token 10 when it is "0x0" and None otherwise.
C7_LetterCodes ==
    (Asked /\ TwelveTokens(resp))
        => /\ answers.isValid = TRUE
           /\ answers.keyboardState = Return(KeyboardTable(resp.fields[1]))
           /\ answers.screenFormatting = Return(ScreenTable(resp.fields[2]))
           /\ answers.fieldProtection = Return(ProtectionTable(resp.fields[3]))
           /\ answers.emulatorMode = Return(ModeTable(resp.fields[5]))
           /\ answers.modelNumber = Return(PyStr(resp.fields[6]))
           /\ answers.windowId =
                Return(IF resp.fields[11] = << "0", "x", "0" >>
                       THEN PyStr(<< "0", "x", "0" >>) ELSE PyNone)
           /\ answers.execTime = Return(PyStr(resp.fields[12]))

\* A valid line whose protection letter is neither P nor U has been decoded.
C7_Witness ==
    /\ Asked /\ TwelveTokens(resp)
    /\ resp.fields[3] = << "X" >>
    /\ answers.fieldProtection = Return(Lit("Unknown"))
    /\ answers.keyboardState = Return(Lit("Unlocked"))
    /\ answers.emulatorMode = Return(Lit("3270"))

\* C8: for every valid status line whose tokens 8 and 9 are the integers r and
\* c, cursorPosition() returns (r + 1, c + 1), without clamping; so the
\* coordinates moveTo(row, col) sends come back as (row, col).
C8_CursorOneBased ==
    (Asked /\ TwelveTokens(resp))
        => /\ \A p, q \in IntTexts :
                (resp.fields[9] = p[1] /\ resp.fields[10] = q[1])
                    => answers.cursorPosition = Return(PyTuple(p[2] + 1, q[2] + 1))
           /\ \A row, col \in {k + 1 : k \in CoordValues} :
                (/\ resp.fields[9] = moveToCoordinates(row, col)[1]
                 /\ resp.fields[10] = moveToCoordinates(row, col)[2])
                    => answers.cursorPosition = Return(PyTuple(row, col))

\* The cursor reported at the coordinates that moveTo(-10, 0) sends.
C8_Witness ==
    /\ Asked /\ TwelveTokens(resp)
    /\ resp.fields[9] = << "-", "1", "1" >>
    /\ resp.fields[10] = << "-", "1" >>
    /\ answers.cursorPosition = Return(PyTuple(-10, 0))

\* C19: for a valid status line, screenDefinition() returns (rows, cols), the
\* integer values of tokens 6 and 7; when one of the two is no integer the
\* call fails with ValueError, returning neither None nor a default, while
\* the status line stays valid.
C19_ScreenDefinition ==
    (Asked /\ TwelveTokens(resp))
        => /\ answers.isValid = TRUE
           /\ \A p, q \in ScreenTexts :
                (resp.fields[7] = p[1] /\ resp.fields[8] = q[1])
                    => answers.screenDefinition = Return(PyTuple(p[2], q[2]))
           /\ (resp.fields[7] \in NonIntTexts \/ resp.fields[8] \in NonIntTexts)
                => answers.screenDefinition = Raise("ValueError")

\* The number of columns of a valid line is no integer: screenDefinition()
\* raised ValueError, and the other accessors answered.
C19_Witness ==
    /\ Asked /\ TwelveTokens(resp)
    /\ resp.fields[7] = << "2", "4" >> /\ resp.fields[8] = << "1", ".", "5" >>
    /\ answers.isValid = TRUE
    /\ answers.screenDefinition = Raise("ValueError")
    /\ answers.keyboardState = Return(Lit("Unlocked"))

(***************************************************************************)
(* The facade's claims, stated for SpecFacade.                          *)
(***************************************************************************)
\* The decimal text of a number of 0 .. 99.
Decimal(n) ==
    IF n < 10 THEN << Digits[n + 1] >> ELSE << Digits[(n \div 10) + 1], Digits[(n % 10) + 1] >>

\* The success flag of the response: its result token is "ok".
Success(r) == Complete(r) /\ r.result = T_ok

\* C9: for every integer n of 1..24, sendPF(n) writes exactly one line,
\* "PF(n)\n", and returns the success flag of the response to it; for every
\* integer n of 1..3, sendPA(n) does so with "PA(n)\n".
C9_KeyCommands ==
    /\ (call.op = "sendPF" /\ call.n.t = "int" /\ call.n.v \in 1 .. 24)
        => /\ written = << Encode(<< "P", "F", "(" >> \o Decimal(call.n.v) \o << ")", "\n" >>) >>
           /\ ret = Return(PyBool(Success(resp)))
    /\ (call.op = "sendPA" /\ call.n.t = "int" /\ call.n.v \in 1 .. 3)
        => /\ written = << Encode(<< "P", "A", "(" >> \o Decimal(call.n.v) \o << ")", "\n" >>) >>
           /\ ret = Return(PyBool(Success(resp)))

\* sendPF(24) has been sent and answered "ok".
C9_Witness ==
    /\ call.op = "sendPF" /\ call.n = PyInt(24)
    /\ written = << << 80, 70, 40, 50, 52, 41, 10 >> >>
    /\ ret = Return(PyBool(TRUE))

\* The argument of the last call is one the operation has to reject: a key
\* that is no integer or is out of range, a data type other than html and rtf.
InvalidArgument(c) ==
    \/ c.op = "sendPF" /\ ~(c.n.t = "int" /\ c.n.v \in 1 .. 24)
    \/ c.op = "sendPA" /\ ~(c.n.t = "int" /\ c.n.v \in 1 .. 3)
    \/ c.op = "saveScreen" /\ c.dataType \notin {T_html, T_rtf}

\* C10, as claimed: a call with an invalid argument returns False, writes
\* nothing to the subprocess input, reads nothing from its output and leaves
\* the channel's buffer and status as they were.
C10_InvalidArgumentRejected ==
    [][InvalidArgument(call')
        => /\ ret' = Return(PyBool(FALSE))
           /\ written' = << >>
           /\ nRead' = 0
           /\ buffer' = buffer
           /\ statusMsg' = statusMsg]_vars

\* The decimal text of an integer of -99 .. 99.
SignedDecimal(n) == IF n < 0 THEN << "-" >> \o Decimal(0 - n) ELSE Decimal(n)

\* C11: for all integers row and col, zero and negative ones included,
\* moveTo(row, col) writes exactly one line, "MoveCursor(row-1, col-1)\n":
\* each coordinate is one less than given, never clamped and never rejected.
C11_MoveToDecrements ==
    (call.op = "moveTo")
        => written =
            << Encode(T_MoveCursor \o << "(" >> \o SignedDecimal(call.row - 1) \o << ",", " " >>
                          \o SignedDecimal(call.col - 1) \o << ")", "\n" >>) >>

\* moveTo(0, -10) has written "MoveCursor(-1, -11)\n".
C11_Witness ==
    /\ call.op = "moveTo" /\ call.row = 0 /\ call.col = -10
    /\ written = << Encode(<< "M", "o", "v", "e", "C", "u", "r", "s", "o", "r", "(", "-", "1",
                              ",", " ", "-", "1", "1", ")", "\n" >>) >>

\* C14, as claimed: every byte sequence an operation writes to the subprocess
\* input is a single line, with exactly one newline, its last byte, whatever
\* the arguments (the text of sendText and the file name of saveScreen
\* included).
C14_WritesSingleLines ==
    \A i \in 1 .. Len(written) :
        /\ Len(written[i]) >= 1
        /\ written[i][Len(written[i])] = 10
        /\ \A j \in 1 .. Len(written[i]) - 1 : written[i][j] # 10

\* C16, as claimed: no operation of a constructed client lets an exception
\* escape to the caller, whatever the arguments (readTextArea with a row, a
\* column or a count below 1 included) and whatever the response.
C16_NoExceptionEscapes == ret.t # "raise"

(***************************************************************************)
(* The claims about construction and connection, stated for SpecClient    *)
(* and SpecConfig.                                                         *)
(***************************************************************************)
\* The value is configured: it is neither None nor the empty text.
Configured(x) == x # PyNone /\ x # PyStr(<< >>)

\* The configuration files that enable secure transport (enableTLS = YES).
TLSFiles == {T_tlsCfg}

\* Secure transport has been enabled for the client the caller holds: by its
\* configuration file or by the enableTLS argument of its constructor.
SecureTransport ==
    \/ client.enableTLS = PyStr(T_yes)
    \/ Configured(client.configFile) /\ client.configFile.v \in TLSFiles

\* C12, as claimed: connect() writes exactly one command; its target is
\* "lu@host" when a logical-unit name is configured and "host" otherwise, and
\* its prefix is "L:" if and only if secure transport is enabled for the
\* client, by the configuration file or by the enableTLS argument of the
\* constructor, and "B:" otherwise.
C12_ConnectBySettings ==
    (call.op = "connect")
        => written =
            << Encode(<< "C", "o", "n", "n", "e", "c", "t", "(" >>
                          \o (IF SecureTransport THEN << "L", ":" >> ELSE << "B", ":" >>)
                          \o (IF Configured(conf.luName)
                              THEN conf.luName.v \o << "@" >> \o conf.hostName.v
                              ELSE conf.hostName.v)
                          \o << ")", "\n" >>) >>

\* The connection state that the status line of response r reports: True when
\* its fourth token begins with "C(", False when it is "N", None for any
\* other token, for a line that is not valid and for a stream without line.
ConnectionOf(r) ==
    IF r.cut > Len(r.data) /\ TwelveTokens(r)
    THEN LET f == r.fields[4]
         IN  IF Len(f) >= 2 /\ f[1] = "C" /\ f[2] = "(" THEN PyBool(TRUE)
             ELSE IF f = << "N" >> THEN PyBool(FALSE)
             ELSE PyNone
    ELSE PyNone

RuleBroken(a) ==
    \/ a.modelName \in {PyStr(<< "3", "2", "7", "0" >>), PyStr(<< >>)}
    \/ a.hostPort \in {PyStr(<< "0" >>), PyStr(<< "6", "5", "5", "3", "6" >>),
                        PyStr(<< "-", "1" >>), PyInt(0)}
    \/ a.codePage = PyStr(<< "z", "z" >>)
    \/ a.configFile = PyStr(T_koCfg)

\* The port given, by argument or by the configuration file, is no number.
PortNotNumber(a) ==
    \/ a.hostPort \in {PyStr(<< "a", "b", "c" >>), PyStr(<< >>)}
    \/ a.configFile = PyStr(T_portCfg)

BrokenRules(c) ==
    {a \in {"modelName"} : c.modelName \notin {PyStr(m) : m \in validModels}}
    \cup {a \in {"hostPort"} :
            \/ IntValue(c.hostPort).t = "raise"
            \/ IntValue(c.hostPort).v \notin 1 .. 65535}
    \cup {a \in {"codePage"} :
            Configured(c.codePage) /\ c.codePage.v \notin sbcsCodePages \cup dbcsCodePage}
    \cup {a \in {"screensDir"} : Configured(c.screensDir) /\ c.screensDir.v # T_screensDir}
    \cup {a \in {"verifyCert"} :
            Configured(c.verifyCert) /\ c.verifyCert \notin {PyStr(T_yes), PyStr(T_no)}}
    \cup {a \in {"enableTLS"} :
            Configured(c.enableTLS) /\ c.enableTLS \notin {PyStr(T_yes), PyStr(T_no)}}

\* The port of the arguments a of Config, or of the file they name, is no
\* number.
ConfigPortNotNumber(a) ==
    \/ a.cfgFile = PyStr(T_portCfg)
    \/ /\ a.cfgFile \in {PyNone, PyStr(T_tlsCfg), PyStr(T_flagsCfg)}
       /\ a.hostPort \in {PyStr(<< "a", "b", "c" >>), PyStr(<< >>),
                           PyStr(<< "8", "0", ".", "5" >>)}

\* C18, as claimed: Config(...) always gives a Config, whose isValid() is True
\* if and only if every rule holds (the model is one of the 8 names, the port
\* is within 1 .. 65535, the code page if set is supported, the screens
\* directory if set exists, verifyCert and enableTLS are "yes" or "no"); every
\* rule broken is recorded in invalidAttributes; a port that is no number
\* gives an invalid Config and no other kind of failure.
C18_ValidIffRulesHold ==
    (call.op = "Config" /\ call.args.cfgFile # PyStr(T_noCfg))
        => /\ ret.t = "return"
           /\ ret.v.is_valid <=> BrokenRules(ret.v) = {}
           /\ {ret.v.invalidAttributes[i] : i \in 1 .. Len(ret.v.invalidAttributes)}
                = BrokenRules(ret.v)
           /\ ConfigPortNotNumber(call.args) => "hostPort" \in BrokenRules(ret.v)

\* C21, as claimed: waitForField() is a single blocking command: it writes
\* exactly the one line "Wait(<timeout>, InputField)\n", once (no retry), reads
\* the response of this command, and returns to the caller a boolean: True when
\* the result token is "ok", False otherwise.
C21_WaitForFieldReports ==
    (call.op = "waitForField")
        => /\ written = << Encode(T_Wait \o Decimal(client.timeout.v) \o T_InputField \o << "\n" >>) >>
           /\ Complete(resp) => /\ nRead = Len(resp.data) + 2
                                /\ ret = Return(PyBool(resp.result = T_ok))

\* C27: S3270.do('Quit'), which endSession calls, leaves the buffer and the
\* status of the channel exactly as they were before the call: those of the
\* last command other than 'Quit', or None if there was none; the call neither
\* clears nor replaces them, whatever the subprocess output holds.
C27_QuitKeepsChannel ==
    [][(call'.op = "do" /\ call'.cmd = T_Quit)
          => (buffer' = buffer /\ statusMsg' = statusMsg)]_vars

\* 'Quit' was sent after a command that left a buffer and a valid status, the
\* output holding the lines of another response: the channel holds them still.
C27_Witness ==
    /\ call.op = "do" /\ call.cmd = T_Quit
    /\ doCalls >= 2
    /\ Complete(resp) /\ Len(resp.data) >= 1 /\ resp.status = S_connected
    /\ buffer # PyNone /\ buffer # PyStr(Join(resp.data, << "\n" >>))
    /\ statusMsg # PyNone /\ statusMsg # StatusMessage(resp.status)

(***************************************************************************)
(* The response reader's claims, stated for SpecLines.                     *)
(***************************************************************************)
\* A line is a data line: its first five characters are d, a, t, a and the colon.
IsDataLine(l) ==
    /\ Len(l) >= 5
    /\ l[1] = "d" /\ l[2] = "a" /\ l[3] = "t" /\ l[4] = "a" /\ l[5] = ":"

\* The payload of a data line: the line without its first six characters.
PayloadOf(l) == [i \in 1 .. (IF Len(l) > 6 THEN Len(l) - 6 ELSE 0) |-> l[i + 6]]

RECURSIVE DataRun(_)
\* The number of data lines at the head of the lines L.
DataRun(L) == IF L # << >> /\ IsDataLine(Head(L)) THEN 1 + DataRun(Tail(L)) ELSE 0

\* The last call read a subprocess output given as lines, which held a line
\* after its run of data lines and one more after that.
ReadLines == call.op = "do" /\ "lines" \in DOMAIN resp /\ Len(resp.lines) >= DataRun(resp.lines) + 2

\* C23: the response reader takes as data lines exactly the lines at the head
\* of the output that begin with the 5 characters "data:"; the payload of each
\* is the line without its first 6 characters ("data:" alone gives the empty
\* payload, "data:Hi" gives "i"); the payloads joined by newlines are the
\* buffer; the first line that does not begin with "data:" is the status line,
\* whatever it holds, and the line after it is the result token.
C23_LineClassification ==
    ReadLines
        => LET L == resp.lines
               n == DataRun(L)
           IN  /\ nRead = n + 2
               /\ n >= 1 => buffer = PyStr(Join([i \in 1 .. n |-> PayloadOf(L[i])], << "\n" >>))
               /\ statusMsg = StatusMessage(L[n + 1])
               /\ ret = Return(PyBool(L[n + 2] = T_ok))

\* Three data lines were read, the third without a separator and the first
\* bare; the line taken as status resembles a data line, and the line taken as
\* result token is a data line.
C23_Witness ==
    /\ ReadLines
    /\ DataRun(resp.lines) = 3
    /\ resp.lines[1] = T_data
    /\ resp.lines[3] = T_data \o << "H", "i" >>
    /\ resp.lines[4] = << " " >> \o T_data \o << " ", "H", "i" >>
    /\ resp.lines[5] = T_data \o << " ", "H", "i" >>
    /\ buffer.v[Len(buffer.v)] = "i" /\ buffer.v[Len(buffer.v) - 1] = "\n"
    /\ ~isValid(statusMsg)
    /\ ret = Return(PyBool(FALSE))

(***************************************************************************)
(* The read operations' claims, stated for SpecRead.                       *)
(***************************************************************************)
\* The data of response r as the caller should receive them: the payloads
\* joined by newlines, None when the response has no data line.
OwnData(r) == IF r.data = << >> THEN PyNone ELSE PyStr(Join(r.data, << "\n" >>))

\* C25, as claimed: the read operations return only data of their own
\* command.  getScreen, readTextAtPosition and readTextArea return the data
\* lines of the response to the command they sent (readTextArea of several
\* rows as a list), and nothing when it has no data line; foundTextAtPosition(row, col, t) and
\* trySendTextToField(t, row, col) return True only if the response to their
\* own Ascii read carried data equal to t; none of them returns or matches
\* data that an earlier command left in the channel.
C25_ReadsOwnData ==
    /\ (call.op \in {"getScreen", "readTextAtPosition"}) => ret = Return(OwnData(resp))
    /\ (call.op = "readTextArea" /\ ret.t = "return")
            => ret = Return(IF call.area[3] > 1 THEN PyList(resp.data) ELSE OwnData(resp))
    /\ (call.op = "foundTextAtPosition" /\ ret = Return(PyBool(TRUE)))
            => OwnData(resp) = PyStr(call.text)
    /\ (call.op = "trySendTextToField" /\ ret = Return(PyBool(TRUE)))
            => OwnData(resp.parts[4]) = PyStr(call.text)

(***************************************************************************)
(* The claims about the sequence of writes and reads, stated for           *)
(* SpecStream.                                                             *)
(***************************************************************************)
\* Thread t is inside S3270.do, or has just returned from it.
Returned(t) == threads[t].pc \in {"returned", "done"}

\* The subprocess has answered the call of S3270.do that thread t is in.
Answered(t) == \E g \in pipe.given : g[1] = threads[t].id

\* The response the subprocess gave to it.
ResponseTo(t) == (CHOOSE g \in pipe.given : g[1] = threads[t].id)[2]

\* Nothing of a response is unread or still to be written.
AtBoundary == pipe.stdout = << >> /\ pipe.pending = << >>

\* C22, as claimed: with a single caller and a subprocess that answers (it
\* has not exited) every command other than 'Quit' with a well-formed response (k data lines, the
\* status line, the result token), each S3270.do writes its command once and
\* reads exactly the k+2 lines of its own response before it returns; when no
\* call is under way the reader stands at a response boundary; no command is
\* written while an earlier response is partly unread or an earlier command
\* other than 'Quit' is unanswered; and the result, the
\* buffer and the status after the call come only from the call's own
\* response.
C22_OneResponsePerCommand ==
    ~pipe.closed
        => /\ (threads[1].pc \in {"idle", "write", "returned", "done"}) => AtBoundary
           /\ (threads[1].pc = "write")
               => \A i \in 1 .. Len(pipe.stdin) : pipe.stdin[i].line = QuitLine
           /\ (Returned(1) /\ Answered(1))
               => LET r == ResponseTo(1)
                  IN  /\ threads[1].sent = << cmdBytes(threads[1].arg) >>
                      /\ threads[1].got = [i \in 1 .. Len(r.data) + 2 |-> threads[1].id]
                      /\ threads[1].ret = PyBool(r.result = T_ok)
                      /\ statusMsg = StatusMessage(r.status)
                      /\ buffer = OwnData(r)

(***************************************************************************)
(* The claim about trySendTextToField, stated for SpecField.               *)
(***************************************************************************)
\* The four commands of trySendTextToField(text, row, col), as the claim
\* gives them.
FourCommands(o) ==
    << T_MoveCursor \o << "(" >> \o SignedDecimal(o.row - 1) \o << ",", " " >>
           \o SignedDecimal(o.col - 1) \o << ")" >>,
       T_DeleteField,
       T_String \o << "(", "\"" >> \o o.text \o << "\"", ")" >>,
       T_Ascii \o << "(" >> \o SignedDecimal(o.row - 1) \o << "," >>
           \o SignedDecimal(o.col - 1) \o << "," >> \o Decimal(Len(o.text)) \o << ")" >> >>

\* C26: trySendTextToField(text, row, col) issues exactly four commands, in
\* this order: MoveCursor(row-1, col-1), DeleteField, String("text"),
\* Ascii(row-1,col-1,len(text)).  At every moment the lines it has written are
\* the first of these four, each followed by a line feed; when it writes one,
\* the response to the one before has been read to its last line and nothing
\* else; and it returns only after the fourth, whatever the first three
\* returned.
C26_FourCommandsInOrder ==
    LET th == threads[1]
    IN  (th.op.name = "trySendTextToField")
            => /\ Len(th.sent) <= 4
               /\ th.sent = [i \in 1 .. Len(th.sent) |->
                                Encode(FourCommands(th.op)[i] \o << "\n" >>)]
               /\ Len(th.sent) = IF th.pc = "write" THEN th.at - 1 ELSE th.at
               /\ Len(th.rets) = IF th.pc \in {"returned", "done"} THEN th.at ELSE th.at - 1
               /\ (th.pc = "write") => (AtBoundary /\ pipe.stdin = << >>)
               /\ (th.pc = "returned")
                    => (AtBoundary /\ th.got = [i \in 1 .. Len(ResponseTo(1).data) + 2 |-> th.id])
               /\ (th.pc = "done") => (th.at = 4 /\ stdinWrites = 4 /\ doCalls = 4)

\* The operation has returned, the cursor move and the field deletion having
\* been refused: the text was typed and read back all the same.
C26_Witness ==
    /\ threads[1].op.name = "trySendTextToField"
    /\ threads[1].pc = "done"
    /\ threads[1].rets[1] = PyBool(FALSE) /\ threads[1].rets[2] = PyBool(FALSE)
    /\ threads[1].rets[3] = PyBool(TRUE)
    /\ Len(threads[1].sent) = 4
    /\ threads[1].op.row = 0
    /\ threads[1].out = PyBool(TRUE)

(***************************************************************************)
(* The claim about calling threads, stated for SpecThreads.                *)
(***************************************************************************)
\* The number of commands on the way: written and not yet answered, or whose
\* response is not yet read to its end.
Outstanding == Cardinality({t \in Threads : threads[t].pc \in {"test", "line1", "line2", "loop", "result"}})

\* The call of thread t has returned with nothing but its own: the line it
\* wrote is its command, the lines it read are the k+2 lines of the response to
\* this line, and the result is that of this response.
OwnCall(t) ==
    LET r == ResponseTo(t)
    IN  /\ threads[t].sent = << cmdBytes(threads[t].arg) >>
        /\ threads[t].got = [i \in 1 .. Len(r.data) + 2 |-> threads[t].id]
        /\ threads[t].ret = PyBool(r.result = T_ok)

Waiting(t) ==
    /\ threads[t].pc \in {"line1", "line2", "loop", "result"}
    /\ ~pipe.closed /\ pipe.stdout = << >>

\* The reads of S3270.check so far, on the output resp.lines: in the run of
\* data lines it has read data lines only; it leaves the run at the first line
\* that is no data line or at the end of the stream; and it returns after one
\* more read.
ReadsBounded(t) ==
    LET n == DataRun(resp.lines)
        reads == Len(threads[t].got)
    IN  /\ (threads[t].pc \in {"line1", "line2", "loop"}) => reads <= n
        /\ (threads[t].pc = "result") => reads = n + 1
        /\ Returned(t) => reads = n + 2

\* C24: on every finite subprocess output, S3270.do terminates.  The loop over
\* the data lines ends at the first line that is no data line or at the end of
\* the stream, also when the stream ends inside the run of data lines, and one
\* more line is read after it, no more.  A call that has begun returns, unless
\* it comes to wait at a readline on an output that is open and delivers no
\* line: when the output ends with the end of the stream the call always
\* returns.
C24_DoTerminates ==
    /\ [](ReadsBounded(1))
    /\ (threads[1].pc = "write") ~> (threads[1].pc = "done" \/ Waiting(1))

\* The call has returned on an output of data lines only, closed after the
\* last of them: the end of the stream ended the loop and one more read was
\* made, which found the end of the stream again.
C24_Witness ==
    /\ pipe.closed
    /\ threads[1].pc = "done"
    /\ Len(resp.lines) = MaxLines /\ DataRun(resp.lines) = MaxLines
    /\ Len(threads[1].got) = MaxLines + 2
    /\ threads[1].ret = PyBool(FALSE)
    /\ buffer # PyNone

=============================================================================
